---- MODULE Spec2Model ----
(***************************************************************************)
(* Model of the GlobalPulse ingestion core:                                *)
(*   backend/app/scraper/rss_engine.py  (RSSEngine, keyword tables)        *)
(*   backend/app/scraper/scheduler.py   (the five interval jobs)           *)
(*   backend/app/data/cache.py          (snapshot cache and pub/sub)       *)
(*   backend/app/data/models.py         (Article, unique url)              *)
(* Strings are TLA+ strings; a character is a string of length 1.          *)
(***************************************************************************)
EXTENDS Integers, Sequences, FiniteSets, TLC

(***************************************************************************)
(* The dedup state of the RSSEngine singleton (rss_engine = RSSEngine()).  *)
(***************************************************************************)
VARIABLES
  seen_urls,     \* RSSEngine.seen_urls
  seen_titles    \* RSSEngine.seen_titles

(***************************************************************************)
(* Text helpers: str.lower(), str.strip(), the `in` substring test.        *)
(***************************************************************************)
UpperToLower ==
  ("A" :> "a") @@ ("B" :> "b") @@ ("C" :> "c") @@ ("D" :> "d") @@ ("E" :> "e") @@
  ("F" :> "f") @@ ("G" :> "g") @@ ("H" :> "h") @@ ("I" :> "i") @@ ("J" :> "j") @@
  ("K" :> "k") @@ ("L" :> "l") @@ ("M" :> "m") @@ ("N" :> "n") @@ ("O" :> "o") @@
  ("P" :> "p") @@ ("Q" :> "q") @@ ("R" :> "r") @@ ("S" :> "s") @@ ("T" :> "t") @@
  ("U" :> "u") @@ ("V" :> "v") @@ ("W" :> "w") @@ ("X" :> "x") @@ ("Y" :> "y") @@
  ("Z" :> "z")

LowerChar(c) ==
  IF c \in DOMAIN UpperToLower THEN UpperToLower[c] ELSE c

\* character by character; a long string is lowered half by half
RECURSIVE Lower(_)
Lower(s) ==
  IF Len(s) = 0 THEN ""
  ELSE IF Len(s) = 1 THEN LowerChar(s)
  ELSE Lower(SubSeq(s, 1, Len(s) \div 2))
         \o Lower(SubSeq(s, (Len(s) \div 2) + 1, Len(s)))

IsSpace(c) ==
  c \in {" ", "\t", "\n", "\r"}

RECURSIVE LStrip(_)
LStrip(s) ==
  IF Len(s) > 0 /\ IsSpace(SubSeq(s, 1, 1)) THEN LStrip(SubSeq(s, 2, Len(s)))
  ELSE s

RECURSIVE RStrip(_)
RStrip(s) ==
  IF Len(s) > 0 /\ IsSpace(SubSeq(s, Len(s), Len(s)))
  THEN RStrip(SubSeq(s, 1, Len(s) - 1))
  ELSE s

Strip(s) ==
  RStrip(LStrip(s))

Contains(text, kw) ==
  \E i \in 1..(Len(text) - Len(kw) + 1) : SubSeq(text, i, i + Len(kw) - 1) = kw

(***************************************************************************)
(* difflib.SequenceMatcher(None, a, b).ratio() for len(b) < 200 (no        *)
(* autojunk): Ratcliff/Obershelp matching blocks, indices 0-based and      *)
(* half-open as in the library.                                            *)
(***************************************************************************)
CharAt(s, i) ==
  SubSeq(s, i + 1, i + 1)

RECURSIVE RunLen(_, _, _, _, _, _)
RunLen(a, b, i, j, ahi, bhi) ==
  IF i < ahi /\ j < bhi /\ CharAt(a, i) = CharAt(b, j)
  THEN 1 + RunLen(a, b, i + 1, j + 1, ahi, bhi)
  ELSE 0

SetMax(S) ==
  CHOOSE x \in S : \A y \in S : y <= x

SetMin(S) ==
  CHOOSE x \in S : \A y \in S : x <= y

find_longest_match(a, b, alo, ahi, blo, bhi) ==
  LET I == alo..(ahi - 1)
      J == blo..(bhi - 1)
      k == SetMax({RunLen(a, b, i, j, ahi, bhi) : i \in I, j \in J} \cup {0})
  IN IF k = 0 THEN [i |-> alo, j |-> blo, k |-> 0]
     ELSE LET bi == SetMin({i \in I : \E j \in J : RunLen(a, b, i, j, ahi, bhi) = k})
              bj == SetMin({j \in J : RunLen(a, b, bi, j, ahi, bhi) = k})
          IN [i |-> bi, j |-> bj, k |-> k]

RECURSIVE MatchCount(_, _, _, _, _, _)
MatchCount(a, b, alo, ahi, blo, bhi) ==
  IF alo >= ahi \/ blo >= bhi THEN 0
  ELSE LET m == find_longest_match(a, b, alo, ahi, blo, bhi)
       IN IF m.k = 0 THEN 0
          ELSE MatchCount(a, b, alo, m.i, blo, m.j) + m.k
               + MatchCount(a, b, m.i + m.k, ahi, m.j + m.k, bhi)

\* FUZZY_MATCH_THRESHOLD = 0.85 as the fraction ThresholdNum / ThresholdDen
ThresholdNum == 85
ThresholdDen == 100

\* ratio() >= FUZZY_MATCH_THRESHOLD, with ratio() = 2.0 * M / T and 1.0 when T = 0
RatioAtLeastThreshold(a, b) ==
  LET T == Len(a) + Len(b)
      M == MatchCount(a, b, 0, Len(a), 0, Len(b))
  IN IF T = 0 THEN TRUE
     ELSE 2 * M * ThresholdDen >= ThresholdNum * T

(***************************************************************************)
(* Keyword tables of rss_engine.py.                                        *)
(***************************************************************************)
\* CATEGORY_KEYWORDS, in declaration (dict insertion) order
CATEGORY_KEYWORDS ==
  <<
  [cat |-> "conflict", keywords |-> <<
    "war", "attack", "bombing", "missile", "military", "airstrike", "killed",
    "troops", "invasion", "offensive", "ceasefire", "casualties", "armed",
    "weapon", "drone strike", "shelling", "terrorist", "insurgent", "siege",
    "combat", "militia", "artillery", "explosion", "battlefield" >>],
  [cat |-> "diplomacy", keywords |-> <<
    "summit", "treaty", "ambassador", "diplomatic", "negotiations", "UN",
    "resolution", "bilateral", "multilateral", "peace talks", "envoy",
    "foreign minister", "secretary of state", "accord", "deal", "pact" >>],
  [cat |-> "economy", keywords |-> <<
    "GDP", "inflation", "recession", "stock market", "trade", "tariff",
    "interest rate", "federal reserve", "central bank", "unemployment",
    "economic", "fiscal", "monetary", "budget", "debt", "bond", "currency",
    "IMF", "World Bank", "sanctions", "export", "import" >>],
  [cat |-> "protests", keywords |-> <<
    "protest", "demonstration", "rally", "uprising", "revolution",
    "opposition", "dissent", "crackdown", "riot", "unrest", "march",
    "strike", "civil disobedience", "activists", "tear gas" >>],
  [cat |-> "sanctions", keywords |-> <<
    "sanctions", "embargo", "blacklist", "freeze assets", "ban",
    "restricted", "penalized", "OFAC", "export controls" >>],
  [cat |-> "technology", keywords |-> <<
    "AI", "artificial intelligence", "cyber", "hack", "data breach",
    "technology", "tech", "software", "startup", "crypto", "blockchain",
    "quantum", "semiconductor", "chip", "internet", "5G", "6G" >>],
  [cat |-> "climate", keywords |-> <<
    "climate", "global warming", "carbon", "emissions", "renewable", "solar",
    "wind energy", "drought", "flood", "hurricane", "typhoon", "wildfire",
    "temperature", "ice melt", "sea level", "deforestation" >>],
  [cat |-> "health", keywords |-> <<
    "pandemic", "epidemic", "virus", "vaccine", "outbreak", "WHO", "disease",
    "infection", "hospital", "health", "medical", "COVID", "flu", "ebola",
    "malaria", "pharmaceutical" >>],
  [cat |-> "internet", keywords |-> <<
    "internet shutdown", "censorship", "social media ban", "VPN",
    "digital rights", "surveillance", "privacy", "data protection",
    "online censorship", "firewall", "blocked" >>]
  >>

BREAKING_KEYWORDS ==
  <<
    "breaking", "urgent", "just in", "developing", "alert", "flash",
    "emergency", "crisis", "BREAKING", "explosion", "shooting", "earthquake",
    "tsunami", "coup", "assassination", "invaded", "nuclear",
    "declaration of war", "state of emergency", "martial law"
  >>

HIGH_IMPORTANCE_KEYWORDS ==
  <<
    "president", "prime minister", "united nations", "NATO", "EU", "G7",
    "G20", "killed", "dead", "wounded", "displaced", "sanctions", "invasion",
    "ceasefire", "peace deal", "election results", "coup attempt",
    "mass shooting", "terror attack", "pandemic"
  >>

(***************************************************************************)
(* Classification and scoring.  Times are minutes; the scores the code     *)
(* builds are sums of whole numbers, so round(score, 2) returns them as    *)
(* they are.                                                               *)
(***************************************************************************)
\* kw.lower() of every keyword of a table
LowerAll(keywords) ==
  [k \in DOMAIN keywords |-> Lower(keywords[k])]

CategoryKeywordsLower ==
  [c \in DOMAIN CATEGORY_KEYWORDS |-> LowerAll(CATEGORY_KEYWORDS[c].keywords)]

BreakingKeywordsLower == LowerAll(BREAKING_KEYWORDS)

HighImportanceKeywordsLower == LowerAll(HIGH_IMPORTANCE_KEYWORDS)

\* sum(1 for kw in keywords if kw.lower() in text)
HitCount(text, lowered) ==
  Cardinality({k \in DOMAIN lowered : Contains(text, lowered[k])})

DefaultCategory == "general"

\* a classifier that lets the last declared of the leading categories win
classify_last_declared(title, summary) ==
  LET text == Lower(title \o " " \o summary)
      score == [c \in DOMAIN CATEGORY_KEYWORDS |->
                  HitCount(text, CategoryKeywordsLower[c])]
      scored == {c \in DOMAIN CATEGORY_KEYWORDS : score[c] > 0}
  IN IF scored = {} THEN DefaultCategory
     ELSE LET best == SetMax({score[c] : c \in scored})
              last == SetMax({c \in scored : score[c] = best})
          IN CATEGORY_KEYWORDS[last].cat

\* a classifier without the "general" default
classify_without_default(title, summary) ==
  LET text == Lower(title \o " " \o summary)
      score == [c \in DOMAIN CATEGORY_KEYWORDS |->
                  HitCount(text, CategoryKeywordsLower[c])]
      scored == {c \in DOMAIN CATEGORY_KEYWORDS : score[c] > 0}
  IN IF scored = {} THEN ""
     ELSE LET best == SetMax({score[c] : c \in scored})
              first == SetMin({c \in scored : score[c] = best})
          IN CATEGORY_KEYWORDS[first].cat

_classify_category(title, summary) ==
  LET text == Lower(title \o " " \o summary)
      score == [c \in DOMAIN CATEGORY_KEYWORDS |->
                  HitCount(text, CategoryKeywordsLower[c])]
      scored == {c \in DOMAIN CATEGORY_KEYWORDS : score[c] > 0}
  IN IF scored = {} THEN DefaultCategory
     ELSE LET best == SetMax({score[c] : c \in scored})
              first == SetMin({c \in scored : score[c] = best})
          IN CATEGORY_KEYWORDS[first].cat

Max2(a, b) == IF a >= b THEN a ELSE b
Min2(a, b) == IF a <= b THEN a ELSE b

HalfHour == 30
OneHour == 60
OneDay == 1440

RecencyBonus(age) ==
  IF age < HalfHour THEN 2
  ELSE IF age < OneHour THEN 1
  ELSE IF age > OneDay THEN 0 - 1
  ELSE 0

\* the loop over BREAKING_KEYWORDS without its break: +3 for each keyword
BreakingBonusEach(text) ==
  3 * HitCount(text, BreakingKeywordsLower)

BreakingBonus(text) ==
  IF \E k \in DOMAIN BreakingKeywordsLower :
       Contains(text, BreakingKeywordsLower[k])
  THEN 3 ELSE 0

\* the breaking bonus and the capped high-importance hits of the text
KeywordBonus(title, summary) ==
  LET text == Lower(title \o " " \o summary)
  IN BreakingBonus(text)
     + Min2(HitCount(text, HighImportanceKeywordsLower), 4)

\* the sum of the four terms without the final normalisation to 0-10
ImportanceUnclamped(keywords, priority, published_at, clock) ==
  Max2(0, 4 - priority) + keywords + RecencyBonus(clock - published_at)

\* a score that also counts what the engine has seen so far
ImportanceWithEngineState(keywords, priority, published_at, clock) ==
  Min2(10, ImportanceUnclamped(keywords, priority, published_at, clock)
           + Cardinality(seen_urls))

\* keywords is the KeywordBonus of (title, summary)
ImportanceFrom(keywords, priority, published_at, clock) ==
  LET score == Max2(0, 4 - priority) + keywords
               + RecencyBonus(clock - published_at)
  IN Max2(0, Min2(10, score))

_calculate_importance(title, summary, priority, published_at, clock) ==
  ImportanceFrom(KeywordBonus(title, summary), priority, published_at, clock)

(***************************************************************************)
(* _clean_html: drop <...> tags, collapse whitespace runs, strip, and cut  *)
(* to MaxSummaryLen characters plus "...".                                 *)
(***************************************************************************)
MaxSummaryLen == 2000

\* position of the first ">" at or after position i (1-based), 0 when none
FirstGt(s, i) ==
  LET closing == {k \in i..Len(s) : SubSeq(s, k, k) = ">"}
  IN IF closing = {} THEN 0 ELSE SetMin(closing)

\* re.sub(r"<[^>]+>", "", s)
\* the leftmost tag is the first "<" followed by one or more characters
\* other than ">" and then a ">"
RECURSIVE RemoveTags(_)
RemoveTags(s) ==
  LET opening == {k \in 1..Len(s) :
                    SubSeq(s, k, k) = "<" /\ FirstGt(s, k + 1) > k + 1}
  IN IF opening = {} THEN s
     ELSE LET k == SetMin(opening)
          IN SubSeq(s, 1, k - 1)
               \o RemoveTags(SubSeq(s, FirstGt(s, k + 1) + 1, Len(s)))

\* re.sub(r"\s+", " ", s)
RECURSIVE CollapseSpace(_)
CollapseSpace(s) ==
  LET spaces == {k \in 1..Len(s) : IsSpace(SubSeq(s, k, k))}
  IN IF spaces = {} THEN s
     ELSE LET k == SetMin(spaces)
          IN SubSeq(s, 1, k - 1) \o " "
               \o CollapseSpace(LStrip(SubSeq(s, k, Len(s))))

_clean_html(raw_html) ==
  IF Len(raw_html) = 0 THEN ""
  ELSE LET clean == Strip(CollapseSpace(RemoveTags(raw_html)))
       IN IF Len(clean) > MaxSummaryLen
          THEN SubSeq(clean, 1, MaxSummaryLen) \o "..."
          ELSE clean

(***************************************************************************)
(* Source registry.  RSS_FEEDS lists a sample of the registry in its       *)
(* iteration order (region by region): a tier-1 feed and a feed that the   *)
(* tier-1 pass leaves out.                                                 *)
(***************************************************************************)
RSS_FEEDS ==
  << [name |-> "Reuters World", region |-> "world", priority |-> 1],
     [name |-> "DW Europe", region |-> "europe", priority |-> 2] >>

Sources == DOMAIN RSS_FEEDS

\* priority_filter = None
NoFilter == 0

\* a filter that keeps the tiers at or after the given one
SelectedFromTier(priority_filter) ==
  {s \in Sources :
     priority_filter = NoFilter \/ RSS_FEEDS[s].priority >= priority_filter}

\* the tasks fetch_all_feeds creates for a priority_filter
SelectedSources(priority_filter) ==
  {s \in Sources :
     priority_filter = NoFilter \/ ~(RSS_FEEDS[s].priority > priority_filter)}

(***************************************************************************)
(* Upstream feed contents.  An entry is what feedparser hands to           *)
(* _parse_entry; has_title/has_link say whether the attribute exists, and  *)
(* raises says that reading the entry's summary, date or image raises.     *)
(***************************************************************************)
Entry(title, link) ==
  [has_title |-> TRUE, title |-> title, has_link |-> TRUE, link |-> link,
   has_summary |-> FALSE, summary |-> "",
   has_published |-> FALSE, published |-> 0, raises |-> FALSE]

FeedConfigs ==
  { [s \in Sources |->
       CASE s = 1 -> << Entry("war", "u1") >>
         [] OTHER -> << Entry("wars", "u2"), Entry("Summit", " u1 ") >>] }

\* entries as feedparser delivers them: without a title or a link attribute,
\* with a publication time (minutes on the model's clock), with a summary
EntryNoTitle(link) == [Entry("", link) EXCEPT !.has_title = FALSE]
EntryNoLink(title) == [Entry(title, "") EXCEPT !.has_link = FALSE]
EntryAt(title, link, published) ==
  [Entry(title, link) EXCEPT !.has_published = TRUE, !.published = published]
EntryWith(title, link, summary) ==
  [Entry(title, link) EXCEPT !.has_summary = TRUE, !.summary = summary]

\* an entry whose summary, date or image raises when it is read
EntryRaising(title, link) == [Entry(title, link) EXCEPT !.raises = TRUE]

\* the contents of the two feeds of the registry sample
Feeds(first, second) == [s \in Sources |-> IF s = 1 THEN first ELSE second]

\* entries that lack a title or a link next to complete ones
IncompleteFeeds ==
  Feeds(<< EntryNoTitle("n1"), Entry("alpha", "a1") >>,
        << EntryNoLink("beta"), Entry("", "n2"), Entry("gamma", ""),
           Entry("delta", "d1") >>)

\* one candidate per source, both scoring 5
TiedFeeds ==
  Feeds(<< Entry("quake", "q1") >>, << Entry("EU vote", "q2") >>)

\* tier-1 entries with breaking and high-importance keywords, and entries
\* of every age band, also published in the future
ScoredFeeds ==
  Feeds(<< EntryAt("coup: president killed", "c1", 0 - 10),
           EntryAt("crisis, EU president dead, many killed", "c2", 0 - 29),
           EntryAt("old news", "c3", 0 - 2000) >>,
        << EntryAt("half", "h1", 0 - 30), EntryAt("hour", "h2", 0 - 60),
           EntryAt("day", "h3", 0 - 1440), EntryAt("older", "h4", 0 - 1441),
           EntryAt("later", "h5", 100) >>)

\* decimal digits of a number below 100, as str(n).zfill(2) writes them
Digits == << "0", "1", "2", "3", "4", "5", "6", "7", "8", "9" >>
TwoDigits(n) == Digits[(n \div 10) + 1] \o Digits[(n % 10) + 1]

\* a text of n characters without a keyword, a tag or a space
RECURSIVE LongText(_)
LongText(n) ==
  IF n = 0 THEN ""
  ELSE IF n = 1 THEN "x"
  ELSE LongText(n \div 2) \o LongText(n - (n \div 2))

\* entries number from..to, each with a title and a link of its own
NumberedEntries(from, to) ==
  [k \in 1..(to - from + 1) |->
     Entry(TwoDigits(from + k - 1), "n" \o TwoDigits(from + k - 1))]

\* two candidates more than the cache snapshot takes, the two best scored
\* of the second source last in their feed, one of them with a summary one
\* character longer than a snapshot record keeps
ManyFeeds ==
  Feeds(NumberedEntries(1, 26),
        NumberedEntries(27, 50)
          \o << EntryWith("killed", "k1", LongText(301)),
                Entry("urgent", "g1") >>)

\* feed contents of the single-pass specification
ParseConfigs == {IncompleteFeeds, TiedFeeds, ScoredFeeds, ManyFeeds}

(***************************************************************************)
(* The classifier, the keyword part of the score and the title ratio are   *)
(* pure, so their values on the texts the modelled feeds deliver are       *)
(* computed once and looked up afterwards; any other text is computed      *)
(* directly.  The ratio table is built as a whole before the first state.  *)
(***************************************************************************)
FeedEntries ==
  UNION {{cfg[s][k] : k \in DOMAIN cfg[s]} :
           cfg \in FeedConfigs \cup ParseConfigs, s \in Sources}

FeedTitles == {Strip(e.title) : e \in FeedEntries}

FeedTexts ==
  {<<Strip(e.title), IF e.has_summary THEN _clean_html(e.summary) ELSE "">> :
     e \in FeedEntries}

CategoryTable == [x \in FeedTexts |-> _classify_category(x[1], x[2])]

KeywordBonusTable == [x \in FeedTexts |-> KeywordBonus(x[1], x[2])]

RatioTable ==
  [x \in FeedTitles \X FeedTitles |->
     RatioAtLeastThreshold(Lower(x[1]), Lower(x[2]))] @@ << >>

CategoryOf(title, summary) ==
  IF <<title, summary>> \in FeedTexts THEN CategoryTable[<<title, summary>>]
  ELSE _classify_category(title, summary)

ImportanceOf(title, summary, priority, published_at, clock) ==
  IF <<title, summary>> \in FeedTexts
  THEN ImportanceFrom(KeywordBonusTable[<<title, summary>>], priority,
                      published_at, clock)
  ELSE _calculate_importance(title, summary, priority, published_at, clock)

\* SequenceMatcher(None, a.lower(), b.lower()).ratio() >= FUZZY_MATCH_THRESHOLD
TitlesMatch(a, b) ==
  IF <<a, b>> \in FeedTitles \X FeedTitles THEN RatioTable[<<a, b>>]
  ELSE RatioAtLeastThreshold(Lower(a), Lower(b))

(***************************************************************************)
(* Dedup and entry parsing (RSSEngine._parse_entry, _is_duplicate_title).  *)
(***************************************************************************)
TitleWindow == 500
SeenTitlesCap == 5000
SeenTitlesKeep == 3000

\* hashlib.md5(link.encode()).hexdigest(): an injective tag of the link
UrlHash(link) == <<"md5", link>>

\* a cut that keeps the oldest elements
FirstN(seq, n) ==
  IF Len(seq) <= n THEN seq ELSE SubSeq(seq, 1, n)

LastN(seq, n) ==
  IF Len(seq) <= n THEN seq ELSE SubSeq(seq, Len(seq) - n + 1, Len(seq))

_is_duplicate_title(titles, title) ==
  LET recent == LastN(titles, TitleWindow)
  IN \E i \in DOMAIN recent :
       TitlesMatch(title, recent[i])

\* the article dict _parse_entry returns; a summary of None is kept as ""
Article(id, title, summary, feed, link, published_at, clock) ==
  [id |-> id, title |-> title, summary |-> summary,
   source_name |-> feed.name, url |-> link, region |-> feed.region,
   category |-> CategoryOf(title, summary),
   published_at |-> published_at, scraped_at |-> clock,
   importance_score |->
     ImportanceOf(title, summary, feed.priority, published_at, clock)]

\* a boundary that looks at the title only
MissingTitleOnly(entry) ==
  ~entry.has_title \/ Len(entry.title) = 0

\* `if not title or not link`: the attribute is absent (None) or empty
MissingTitleOrLink(entry) ==
  \/ ~entry.has_title \/ Len(entry.title) = 0
  \/ ~entry.has_link \/ Len(entry.link) = 0

\* a _parse_entry that records the link before it looks at the title
parse_entry_link_first(st, entry, feed, clock, uid) ==
  IF MissingTitleOrLink(entry)
  THEN st
  ELSE LET title == Strip(entry.title)
           link == Strip(entry.link)
           url_hash == UrlHash(link)
       IN IF url_hash \in st.seen_urls THEN st
          ELSE IF _is_duplicate_title(st.seen_titles, title)
          THEN [st EXCEPT !.seen_urls = @ \cup {url_hash}]
          ELSE LET appended == Append(st.seen_titles, title)
                   titles == IF Len(appended) > SeenTitlesCap
                             THEN LastN(appended, SeenTitlesKeep)
                             ELSE appended
                   summary == IF entry.has_summary
                              THEN _clean_html(entry.summary) ELSE ""
                   published_at == IF entry.has_published
                                   THEN entry.published ELSE clock
               IN [seen_urls |-> st.seen_urls \cup {url_hash},
                   seen_titles |-> titles,
                   articles |-> Append(st.articles,
                     Article(uid, title, summary, feed, link,
                             published_at, clock))]

\* st = [seen_urls, seen_titles, articles]: the engine's dedup state and the
\* articles list of the running _fetch_feed; uid is the entry's uuid4
_parse_entry(st, entry, feed, clock, uid) ==
  IF MissingTitleOrLink(entry)
  THEN st
  ELSE LET title == Strip(entry.title)
           link == Strip(entry.link)
           url_hash == UrlHash(link)
       IN IF url_hash \in st.seen_urls THEN st
          ELSE IF _is_duplicate_title(st.seen_titles, title) THEN st
          ELSE LET appended == Append(st.seen_titles, title)
                   titles == IF Len(appended) > SeenTitlesCap
                             THEN LastN(appended, SeenTitlesKeep)
                             ELSE appended
                   summary == IF entry.has_summary
                              THEN _clean_html(entry.summary) ELSE ""
                   published_at == IF entry.has_published
                                   THEN entry.published ELSE clock
               IN IF entry.raises
                  THEN [st EXCEPT !.seen_urls = @ \cup {url_hash},
                                  !.seen_titles = titles]
                  ELSE [seen_urls |-> st.seen_urls \cup {url_hash},
                        seen_titles |-> titles,
                        articles |-> Append(st.articles,
                          Article(uid, title, summary, feed, link,
                                  published_at, clock))]

\* the loop of _fetch_feed over parsed.entries, from entry k on; the uuid4 of
\* an entry is the triple of the run, the feed and the entry's position
RECURSIVE ParseEntries(_, _, _, _, _, _)
ParseEntries(st, entries, feed, clock, runNo, k) ==
  IF k > Len(entries) THEN st
  ELSE LET after == _parse_entry(st, entries[k], feed, clock,
                                 <<runNo, feed.name, k>>)
       IN IF after = st
          THEN ParseEntries(st, entries, feed, clock, runNo, k + 1)
          ELSE ParseEntries(after, entries, feed, clock, runNo, k + 1)

(***************************************************************************)
(* fan-in of fetch_all_feeds: results in task order, then a stable sort    *)
(* by importance_score, highest first.                                     *)
(***************************************************************************)
RECURSIVE ConcatResults(_, _)
ConcatResults(res, order) ==
  IF Len(order) = 0 THEN << >>
  ELSE res[Head(order)] \o ConcatResults(res, Tail(order))

RECURSIVE SetToSortedSeq(_)
SetToSortedSeq(S) ==
  IF S = {} THEN << >>
  ELSE LET m == SetMin(S) IN << m >> \o SetToSortedSeq(S \ {m})

\* list.sort(key=importance_score, reverse=True): a stable sort, so an
\* element stands behind every element of a higher score and behind the
\* elements of its own score that stood before it
SortByScore(seq) ==
  LET before(i) ==
        {j \in DOMAIN seq :
           \/ seq[j].importance_score > seq[i].importance_score
           \/ /\ seq[j].importance_score = seq[i].importance_score
              /\ j < i}
      place == [i \in DOMAIN seq |-> Cardinality(before(i)) + 1] @@ << >>
  IN [r \in DOMAIN seq |-> seq[CHOOSE i \in DOMAIN seq : place[i] = r]]

(***************************************************************************)
(* Store: the articles table with its unique url, seen through one         *)
(* transaction per fetch_and_store call.                                   *)
(***************************************************************************)
Urls(rows) == {r.url : r \in rows}

\* a plain INSERT into a table without the unique index
insert_without_conflict_check(table, row) ==
  table \cup {row}

\* INSERT ... ON CONFLICT (url) DO UPDATE: the new row replaces the stored one
on_conflict_do_update(table, row) ==
  {r \in table : r.url # row.url} \cup {row}

\* INSERT ... ON CONFLICT (url) DO NOTHING on the rows the statement sees
on_conflict_do_nothing(table, row) ==
  IF row.url \in Urls(table) THEN table ELSE table \cup {row}

\* the `if result.rowcount and result.rowcount > 0: stored += 1` of the loop
CountStored(stored, rowcount) ==
  IF rowcount > 0 THEN stored + 1 ELSE stored

\* top_articles = articles[:50] with summary[:300]
SnapshotSize == 50
SnapshotSummaryLen == 300

SnapshotRecord(a) ==
  [id |-> a.id, title |-> a.title,
   summary |-> SubSeq(a.summary, 1, Min2(Len(a.summary), SnapshotSummaryLen)),
   source_name |-> a.source_name, url |-> a.url, region |-> a.region,
   category |-> a.category, published_at |-> a.published_at,
   importance_score |-> a.importance_score]

\* a snapshot of the whole list
SnapshotAll(articles) ==
  [i \in DOMAIN articles |-> SnapshotRecord(articles[i])]

Snapshot(articles) ==
  [i \in 1..Min2(Len(articles), SnapshotSize) |-> SnapshotRecord(articles[i])]

(***************************************************************************)
(* Cache reads (cache.py).  The "latest_articles" key holds the JSON text  *)
(* of a non-empty list of flat objects of strings, numbers and null, which *)
(* json.loads turns back into that list: the model keeps the list.  The    *)
(* result of a call says whether it raised and what it returned.           *)
(***************************************************************************)
\* ttl=600 seconds, in minutes
SnapshotTtlMinutes == 10

\* an Optional value: None, or the value it holds
None == << >>
Some(v) == << v >>
NoSnapshot == [present |-> FALSE, value |-> << >>]

Returned(v) == [raised |-> FALSE, value |-> v]
Raised == [raised |-> TRUE, value |-> None]

\* a cache_get without its try/except
cache_get_unguarded(held, ok) ==
  IF ~ok THEN Raised
  ELSE IF held.present THEN Returned(Some(held.value)) ELSE Returned(None)

\* r.get(key): ok = FALSE says the cache is out of reach and the call raises,
\* which cache_get catches; an absent or expired key reads as None
cache_get(held, ok) ==
  IF ~ok THEN Returned(None)
  ELSE IF held.present THEN Returned(Some(held.value)) ELSE Returned(None)

\* raw = await cache_get(key); None stays None, else json.loads(raw)
cache_get_json(held, ok) ==
  LET raw == cache_get(held, ok)
  IN IF raw.raised THEN raw
     ELSE IF raw.value = None THEN Returned(None)
     ELSE Returned(Some(raw.value[1]))

(***************************************************************************)
(* Scheduler: five interval jobs, each added with max_instances = 1.       *)
(***************************************************************************)
PassJobs == {"fetch_priority_feeds", "fetch_all_feeds"}
BriefingJobs == {"generate_hourly_briefing", "generate_things_to_watch"}
CleanupJob == "cleanup_old_articles"
Jobs == PassJobs \cup BriefingJobs \cup {CleanupJob}

max_instances == 1

\* the priority_filter argument each ingestion job passes to fetch_and_store
PriorityFilter(job) ==
  IF job = "fetch_priority_feeds" THEN 1 ELSE NoFilter

\* an executor that never refuses a run
CanSubmitAlways(running) ==
  running >= 0

\* the executor accepts a run of a job while fewer than max_instances run
CanSubmit(running) ==
  running < max_instances

\* timedelta(days=30) in minutes
RetentionMinutes == 43200

\* a DELETE that goes by the publication time
DeleteByPublishTime(rows, limit) ==
  {r \in rows : ~(r.published_at < limit)}

\* DELETE FROM articles WHERE scraped_at < cutoff
DeleteOlderThan(rows, limit) ==
  {r \in rows : ~(r.scraped_at < limit)}

(***************************************************************************)
(* Bounds of the model.  The clock moves in steps of days, far longer      *)
(* than a job run, so it moves while no job is running.                    *)
(***************************************************************************)
MaxFirings == 2
MaxTicks == 1
MaxFailures == 1
TickSteps == {RetentionMinutes + 1}

(***************************************************************************)
(* State.                                                                  *)
(***************************************************************************)
VARIABLES
  scheduler,     \* "created", "running" or "shutdown"
  registered,    \* jobs in the job store
  inst,          \* running instances of each job
  firings,       \* job runs that came due so far
  lastSkipped,   \* the job whose due run was last skipped, or "none"
  lastRaised,    \* the job whose body last caught an exception, or "none"
  now,           \* the clock, in minutes
  ticks,         \* clock advances so far
  feeds,         \* upstream feed contents of each source
  probe,         \* a direct call of a pure method: its arguments and result
  run,           \* number of the run each fetch_and_store call belongs to
  pc,            \* where each fetch_and_store call stands
  pendingFetch,  \* _fetch_feed tasks of each call not yet completed
  results,       \* gather results of each call, by task
  articles,      \* the sorted list fetch_all_feeds returned to each call
  idx,           \* position of each call in its upsert loop
  stored,        \* the stored counter of each call
  txn,           \* the open store transaction of each call
  store,         \* committed rows of the articles table
  cache_latest,  \* the "latest_articles" key of the cache
  notifications, \* the last count published on "news_updates", if any
  cutoff,        \* cutoff of the running cleanup
  failures,      \* fetch, store and cache failures so far
  accepted,      \* history: candidates of each call in acceptance order
  fetchFailed,   \* history: sources of each call whose fetch failed
  injected,      \* history: upsert-loop positions whose statement raised first
  wanted,        \* history: urls each call upserted that were not yet stored
  committed,     \* history: urls each call's commit added to the store
  quiet,         \* history: the call ran alone, with no failure of any kind
  prev,          \* history: the job whose quiet call was the last change, or "none"
  lastUpsert,    \* history: the last upsert statement of an open transaction
  missed         \* history: items calls have left unpersisted after a failure

schedVars == <<scheduler, registered, inst, firings, lastSkipped, lastRaised>>
clockVars == <<now, ticks>>
engineVars == <<seen_urls, seen_titles>>
passVars == <<run, pc, pendingFetch, results, articles, idx, stored>>
storeVars == <<txn, store>>
cacheVars == <<cache_latest, notifications>>
histVars == <<accepted, fetchFailed, injected, wanted, committed, quiet,
              prev, lastUpsert, missed>>

vars == <<schedVars, clockVars, feeds, probe, engineVars, passVars, storeVars,
          cacheVars, cutoff, failures, histVars>>

NoTxn == [ins |-> {}, del |-> {}, aborted |-> FALSE]
NoResults == [s \in Sources |-> << >>]
NoPrev == "none"
NoProbe == [fn |-> "none"]
\* no record of missed items is kept; a record with nothing in it yet
NotKept == [kept |-> FALSE, items |-> {}]
KeptNone == [kept |-> TRUE, items |-> {}]
NoUpsert == [job |-> "none", outcome |-> "none", wrote |-> FALSE,
             counted |-> FALSE, stale |-> FALSE]

\* the dedup state of a new RSSEngine
NewEngine == [seen_urls |-> {}, seen_titles |-> << >>]

\* the state of the process for the given feed contents and direct call, the
\* rows the articles table holds from earlier runs of the process, and the
\* dedup state the engine has got to
InitLogged(configs, probes, tables, engines, logs) ==
  /\ DOMAIN RatioTable = FeedTitles \X FeedTitles
  /\ scheduler = "created"
  /\ registered = {}
  /\ inst = [j \in Jobs |-> 0]
  /\ firings = 0
  /\ lastSkipped = "none"
  /\ lastRaised = "none"
  /\ now = 0
  /\ ticks = 0
  /\ feeds \in configs
  /\ probe \in probes
  /\ \E e \in engines :
       seen_urls = e.seen_urls /\ seen_titles = e.seen_titles
  /\ run = [p \in PassJobs |-> 0]
  /\ pc = [p \in PassJobs |-> "idle"]
  /\ pendingFetch = [p \in PassJobs |-> {}]
  /\ results = [p \in PassJobs |-> NoResults]
  /\ articles = [p \in PassJobs |-> << >>]
  /\ idx = [p \in PassJobs |-> 1]
  /\ stored = [p \in PassJobs |-> 0]
  /\ txn = [p \in PassJobs |-> NoTxn]
  /\ store \in tables
  /\ cache_latest = [present |-> FALSE, value |-> << >>]
  /\ notifications = << >>
  /\ cutoff = 0
  /\ failures = 0
  /\ accepted = [p \in PassJobs |-> << >>]
  /\ fetchFailed = [p \in PassJobs |-> {}]
  /\ injected = [p \in PassJobs |-> {}]
  /\ wanted = [p \in PassJobs |-> {}]
  /\ committed = [p \in PassJobs |-> {}]
  /\ quiet = [p \in PassJobs |-> FALSE]
  /\ prev = NoPrev
  /\ lastUpsert = NoUpsert
  /\ missed \in logs

\* the same where no record of the missed items is kept
InitIn(configs, probes, tables, engines) ==
  InitLogged(configs, probes, tables, engines, {NotKept})

\* the state after construction
InitWith(configs, probes, tables) ==
  InitIn(configs, probes, tables, {NewEngine})

\* the same on an empty articles table
InitState(configs, probes) == InitWith(configs, probes, {{}})

Init == InitState(FeedConfigs, {NoProbe})

InFlight(p) == pc[p] # "idle"
Other(p) == CHOOSE q \in PassJobs : q # p

(***************************************************************************)
(* Scheduler lifecycle (start_scheduler, stop_scheduler).                  *)
(***************************************************************************)
start_scheduler ==
  /\ scheduler = "created"
  /\ scheduler' = "running"
  /\ registered' = Jobs
  /\ UNCHANGED <<inst, firings, lastSkipped, lastRaised, clockVars, feeds, probe, engineVars, passVars,
                 storeVars, cacheVars, cutoff, failures, histVars>>

\* a shutdown that ends the runs in flight
stop_scheduler_cancels ==
  /\ scheduler = "running"
  /\ scheduler' = "shutdown"
  /\ inst' = [j \in Jobs |-> 0]
  /\ pc' = [p \in PassJobs |-> "idle"]
  /\ txn' = [p \in PassJobs |-> NoTxn]
  /\ UNCHANGED <<registered, firings, lastSkipped, lastRaised, clockVars,
                 feeds, probe, engineVars, run, pendingFetch, results,
                 articles, idx, stored, store, cacheVars, cutoff, failures,
                 histVars>>

stop_scheduler ==
  /\ scheduler = "running"
  /\ scheduler' = "shutdown"
  /\ UNCHANGED <<registered, inst, firings, lastSkipped, lastRaised, clockVars, feeds, probe, engineVars,
                 passVars, storeVars, cacheVars, cutoff, failures, histVars>>

\* a run of job j comes due
Due(j) ==
  /\ scheduler = "running"
  /\ j \in registered
  /\ firings < MaxFirings

\* the run comes due while max_instances runs of the job are executing
SkipRun(j) ==
  /\ Due(j)
  /\ ~CanSubmit(inst[j])
  /\ firings' = firings + 1
  /\ lastSkipped' = j
  /\ UNCHANGED <<lastRaised, scheduler, registered, inst, clockVars, feeds, probe, engineVars,
                 passVars, storeVars, cacheVars, cutoff, failures, histVars>>

Tick(d) ==
  /\ ticks < MaxTicks
  /\ \A j \in Jobs : inst[j] = 0
  /\ ticks' = ticks + 1
  /\ now' = now + d
  /\ UNCHANGED <<schedVars, feeds, probe, engineVars, passVars, storeVars, cacheVars,
                 cutoff, failures, histVars>>

(***************************************************************************)
(* One ingestion run: fetch_priority_feeds / fetch_all_feeds of the        *)
(* scheduler calling rss_engine.fetch_and_store, one action per stretch    *)
(* of code between two awaits.                                             *)
(***************************************************************************)
\* the entries the feeds offer, by source and position
HealItems ==
  UNION {{<<s, k>> : k \in DOMAIN cfg[s]} : cfg \in FeedConfigs, s \in Sources}

ItemUrl(it) == Strip(feeds[it[1]][it[2]].link)
ItemTitle(it) == Strip(feeds[it[1]][it[2]].title)

\* the feed offers the item, with a title and a link
Offered(it) ==
  /\ it[2] \in DOMAIN feeds[it[1]]
  /\ ~MissingTitleOrLink(feeds[it[1]][it[2]])

\* the items the ending call p leaves out of the store after a failure: the
\* fetch of the item's source failed, or the call handed the item to the
\* upsert loop and its statement, its transaction or the commit failed
MissedBy(p) ==
  {it \in HealItems :
     /\ Offered(it)
     /\ it[1] \in SelectedSources(PriorityFilter(p))
     /\ ItemUrl(it) \notin Urls(store)
     /\ \/ it[1] \in fetchFailed[p]
        \/ \E i \in DOMAIN articles[p] : articles[p][i].url = ItemUrl(it)}

\* the call ends with value v (-1: it raised and the job body logged it);
\* its locals are gone
Return(p, v) ==
  /\ pc' = [pc EXCEPT ![p] = "idle"]
  /\ inst' = [inst EXCEPT ![p] = @ - 1]
  /\ run' = [run EXCEPT ![p] = 0]
  /\ pendingFetch' = [pendingFetch EXCEPT ![p] = {}]
  /\ results' = [results EXCEPT ![p] = NoResults]
  /\ articles' = [articles EXCEPT ![p] = << >>]
  /\ idx' = [idx EXCEPT ![p] = 1]
  /\ stored' = [stored EXCEPT ![p] = 0]
  /\ txn' = [txn EXCEPT ![p] = NoTxn]
  /\ accepted' = [accepted EXCEPT ![p] = << >>]
  /\ fetchFailed' = [fetchFailed EXCEPT ![p] = {}]
  /\ injected' = [injected EXCEPT ![p] = {}]
  /\ wanted' = [wanted EXCEPT ![p] = {}]
  /\ committed' = [committed EXCEPT ![p] = {}]
  /\ quiet' = [quiet EXCEPT ![p] = FALSE]
  /\ lastUpsert' = IF lastUpsert.job = p THEN NoUpsert ELSE lastUpsert
  /\ prev' = IF quiet[p] /\ v >= 0 THEN p ELSE NoPrev
  /\ missed' = IF missed.kept
               THEN [missed EXCEPT !.items = @ \cup MissedBy(p)]
               ELSE missed

\* a run that starts on the dedup state the run before it left
RunPassKeepsSeen(p) ==
  /\ Due(p)
  /\ CanSubmit(inst[p])
  /\ firings' = firings + 1
  /\ inst' = [inst EXCEPT ![p] = @ + 1]
  /\ run' = [run EXCEPT ![p] = firings + 1]
  /\ UNCHANGED <<seen_urls, seen_titles>>
  /\ pc' = [pc EXCEPT ![p] = "fetching"]
  /\ pendingFetch' = [pendingFetch EXCEPT ![p] = SelectedSources(PriorityFilter(p))]
  /\ results' = [results EXCEPT ![p] = NoResults]
  /\ articles' = [articles EXCEPT ![p] = << >>]
  /\ accepted' = [accepted EXCEPT ![p] = << >>]
  /\ fetchFailed' = [fetchFailed EXCEPT ![p] = {}]
  /\ LET alone == \A j \in PassJobs \cup {CleanupJob} : inst[j] = 0
     IN /\ quiet' = [q \in PassJobs |-> IF q = p THEN alone ELSE FALSE]
        /\ prev' = IF alone /\ prev = p THEN p ELSE NoPrev
  /\ UNCHANGED <<scheduler, registered, lastSkipped, lastRaised, clockVars, feeds, probe, idx, stored,
                 storeVars, cacheVars, cutoff, failures, injected, wanted,
                 committed, lastUpsert, missed>>

\* the job comes due and runs up to the gather of fetch_all_feeds
RunPass(p) ==
  /\ Due(p)
  /\ CanSubmit(inst[p])
  /\ firings' = firings + 1
  /\ inst' = [inst EXCEPT ![p] = @ + 1]
  /\ run' = [run EXCEPT ![p] = firings + 1]
  /\ seen_urls' = {}
  /\ seen_titles' = << >>
  /\ pc' = [pc EXCEPT ![p] = "fetching"]
  /\ pendingFetch' = [pendingFetch EXCEPT ![p] = SelectedSources(PriorityFilter(p))]
  /\ results' = [results EXCEPT ![p] = NoResults]
  /\ articles' = [articles EXCEPT ![p] = << >>]
  /\ accepted' = [accepted EXCEPT ![p] = << >>]
  /\ fetchFailed' = [fetchFailed EXCEPT ![p] = {}]
  /\ LET alone == \A j \in PassJobs \cup {CleanupJob} : inst[j] = 0
     IN /\ quiet' = [q \in PassJobs |-> IF q = p THEN alone ELSE FALSE]
        /\ prev' = IF alone /\ prev = p THEN p ELSE NoPrev
  /\ UNCHANGED <<scheduler, registered, lastSkipped, lastRaised, clockVars, feeds, probe, idx, stored,
                 storeVars, cacheVars, cutoff, failures, injected, wanted,
                 committed, lastUpsert, missed>>

\* a _fetch_feed task gets status 200 and parses its entries
FetchOk(p, s) ==
  /\ pc[p] = "fetching"
  /\ s \in pendingFetch[p]
  /\ LET st0 == [seen_urls |-> seen_urls, seen_titles |-> seen_titles,
                 articles |-> << >>]
         st == ParseEntries(st0, feeds[s], RSS_FEEDS[s], now, run[p], 1)
     IN /\ seen_urls' = st.seen_urls
        /\ seen_titles' = st.seen_titles
        /\ results' = [results EXCEPT ![p][s] = st.articles]
        /\ accepted' = [accepted EXCEPT ![p] = @ \o st.articles]
  /\ UNCHANGED fetchFailed
  /\ pendingFetch' = [pendingFetch EXCEPT ![p] = @ \ {s}]
  /\ UNCHANGED <<schedVars, clockVars, feeds, probe, run, pc, articles, idx, stored,
                 storeVars, cacheVars, cutoff, failures, injected, wanted,
                 committed, quiet, prev, missed, lastUpsert>>

\* a failing fetch that takes the results of the other tasks with it
FetchFailDropsAll(p, s) ==
  /\ pc[p] = "fetching"
  /\ s \in pendingFetch[p]
  /\ failures < MaxFailures
  /\ failures' = failures + 1
  /\ pendingFetch' = [pendingFetch EXCEPT ![p] = @ \ {s}]
  /\ results' = [results EXCEPT ![p] = NoResults]
  /\ quiet' = [quiet EXCEPT ![p] = FALSE]
  /\ fetchFailed' = [fetchFailed EXCEPT ![p] = @ \cup {s}]
  /\ UNCHANGED <<schedVars, clockVars, feeds, probe, engineVars, run, pc, articles,
                 idx, stored, storeVars, cacheVars, cutoff, accepted, injected,
                 wanted, committed, prev, missed, lastUpsert>>

\* a _fetch_feed task gets a non-200 status, a timeout, a transport error or
\* a payload feedparser cannot parse: it returns its empty articles list
FetchFail(p, s) ==
  /\ pc[p] = "fetching"
  /\ s \in pendingFetch[p]
  /\ failures < MaxFailures
  /\ failures' = failures + 1
  /\ pendingFetch' = [pendingFetch EXCEPT ![p] = @ \ {s}]
  /\ results' = [results EXCEPT ![p][s] = << >>]
  /\ quiet' = [quiet EXCEPT ![p] = FALSE]
  /\ fetchFailed' = [fetchFailed EXCEPT ![p] = @ \cup {s}]
  /\ UNCHANGED <<schedVars, clockVars, feeds, probe, engineVars, run, pc, articles,
                 idx, stored, storeVars, cacheVars, cutoff, accepted, injected,
                 wanted, committed, prev, missed, lastUpsert>>

\* a fetch_and_store without `if not articles: return 0`
GatherWithoutEmptyCheck(p) ==
  /\ pc[p] = "fetching"
  /\ pendingFetch[p] = {}
  /\ LET tasks == SetToSortedSeq(SelectedSources(PriorityFilter(p)))
         all == SortByScore(ConcatResults(results[p], tasks))
     IN articles' = [articles EXCEPT ![p] = all]
  /\ pc' = [pc EXCEPT ![p] = "storing"]
  /\ idx' = [idx EXCEPT ![p] = 1]
  /\ stored' = [stored EXCEPT ![p] = 0]
  /\ txn' = [txn EXCEPT ![p] = NoTxn]
  /\ injected' = [injected EXCEPT ![p] = {}]
  /\ wanted' = [wanted EXCEPT ![p] = {}]
  /\ committed' = [committed EXCEPT ![p] = {}]
  /\ UNCHANGED <<schedVars, run, pendingFetch, results, accepted, fetchFailed,
                 quiet, prev, missed, lastUpsert>>
  /\ UNCHANGED <<clockVars, feeds, probe, engineVars, store, cacheVars, cutoff,
                 failures>>

\* gather returns: merge in task order, sort, and open the store session
Gather(p) ==
  /\ pc[p] = "fetching"
  /\ pendingFetch[p] = {}
  /\ LET tasks == SetToSortedSeq(SelectedSources(PriorityFilter(p)))
         all == SortByScore(ConcatResults(results[p], tasks))
     IN IF Len(all) = 0
        THEN /\ Return(p, 0)
             /\ UNCHANGED <<scheduler, registered, firings, lastSkipped, lastRaised>>
        ELSE /\ articles' = [articles EXCEPT ![p] = all]
             /\ pc' = [pc EXCEPT ![p] = "storing"]
             /\ idx' = [idx EXCEPT ![p] = 1]
             /\ stored' = [stored EXCEPT ![p] = 0]
             /\ txn' = [txn EXCEPT ![p] = NoTxn]
             /\ injected' = [injected EXCEPT ![p] = {}]
             /\ wanted' = [wanted EXCEPT ![p] = {}]
             /\ committed' = [committed EXCEPT ![p] = {}]
             /\ UNCHANGED <<schedVars, run, pendingFetch, results, accepted, fetchFailed,
                            quiet, prev, missed, lastUpsert>>
  /\ UNCHANGED <<clockVars, feeds, probe, engineVars, store, cacheVars, cutoff,
                 failures>>

Storing(p) ==
  pc[p] = "storing" /\ idx[p] <= Len(articles[p])

\* the statement waits while another transaction holds the same url uncommitted
Blocked(p) ==
  /\ Storing(p)
  /\ articles[p][idx[p]].url \in Urls(txn[Other(p)].ins)

WantedAfter(p) ==
  IF articles[p][idx[p]].url \in Urls(store) THEN wanted
  ELSE [wanted EXCEPT ![p] = @ \cup {articles[p][idx[p]].url}]

\* session.execute(stmt) returns
Upsert(p) ==
  /\ Storing(p)
  /\ ~txn[p].aborted
  /\ ~Blocked(p)
  /\ LET row == articles[p][idx[p]]
         table == (store \ txn[p].del) \cup txn[p].ins
         after == on_conflict_do_nothing(table, row)
         rowcount == Cardinality(after \ table)
         count == CountStored(stored[p], rowcount)
     IN /\ txn' = [txn EXCEPT ![p].ins = @ \cup (after \ table),
                              ![p].del = @ \cup (table \ after)]
        /\ stored' = [stored EXCEPT ![p] = count]
        /\ lastUpsert' = [job |-> p,
                          outcome |-> IF row.url \in Urls(table)
                                      THEN "conflict" ELSE "inserted",
                          wrote |-> after # table,
                          counted |-> count # stored[p],
                          stale |-> \E r \in table : r.url = row.url /\ r # row]
  /\ idx' = [idx EXCEPT ![p] = @ + 1]
  /\ wanted' = WantedAfter(p)
  /\ UNCHANGED <<schedVars, clockVars, feeds, probe, engineVars, run, pc, pendingFetch,
                 results, articles, store, cacheVars, cutoff, failures,
                 accepted, fetchFailed, injected, committed, quiet, prev, missed>>

\* session.execute(stmt) raises: "client" before the statement reaches the
\* server, "server" when the server rejects it and fails the transaction
\* (also how the server ends a wait of two transactions for each other)
UpsertError(p, kind) ==
  /\ Storing(p)
  /\ ~txn[p].aborted
  /\ \/ failures < MaxFailures
     \/ kind = "server" /\ Blocked(p) /\ Blocked(Other(p))
  /\ failures' = Min2(failures + 1, MaxFailures)
  /\ txn' = [txn EXCEPT ![p].aborted = (kind = "server")]
  /\ idx' = [idx EXCEPT ![p] = @ + 1]
  /\ injected' = [injected EXCEPT ![p] = @ \cup {idx[p]}]
  /\ quiet' = [quiet EXCEPT ![p] = FALSE]
  /\ lastUpsert' = [job |-> p, outcome |-> kind, wrote |-> FALSE,
                    counted |-> FALSE, stale |-> FALSE]
  /\ UNCHANGED <<schedVars, clockVars, feeds, probe, engineVars, run, pc, pendingFetch,
                 results, articles, stored, store, cacheVars, cutoff, accepted, fetchFailed,
                 wanted, committed, prev, missed>>

\* session.execute(stmt) raises because the transaction has already failed
UpsertInFailedTxn(p) ==
  /\ Storing(p)
  /\ txn[p].aborted
  /\ idx' = [idx EXCEPT ![p] = @ + 1]
  /\ wanted' = WantedAfter(p)
  /\ lastUpsert' = [job |-> p, outcome |-> "in_failed_txn", wrote |-> FALSE,
                    counted |-> FALSE, stale |-> FALSE]
  /\ UNCHANGED <<schedVars, clockVars, feeds, probe, engineVars, run, pc, pendingFetch,
                 results, articles, stored, storeVars, cacheVars, cutoff,
                 failures, accepted, fetchFailed, injected, committed, quiet, 
                 prev, missed>>

\* what COMMIT leaves in the table: a failed transaction is rolled back
CommitRows(rows, t) ==
  IF t.aborted THEN rows ELSE (rows \ t.del) \cup t.ins

\* session.commit()
Commit(p) ==
  /\ pc[p] = "storing"
  /\ idx[p] > Len(articles[p])
  /\ store' = CommitRows(store, txn[p])
  /\ committed' = [committed EXCEPT ![p] = Urls(CommitRows(store, txn[p]) \ store)]
  /\ txn' = [txn EXCEPT ![p] = NoTxn]
  /\ pc' = [pc EXCEPT ![p] = "cache"]
  /\ UNCHANGED <<schedVars, clockVars, feeds, probe, engineVars, run, pendingFetch,
                 results, articles, idx, stored, cacheVars, cutoff, failures,
                 accepted, fetchFailed, injected, wanted, quiet, prev, missed,
                 lastUpsert>>

\* a job body without its try/except: the exception of session.commit()
\* leaves the job and takes the scheduler down
CommitErrorEscapes(p) ==
  /\ pc[p] = "storing"
  /\ idx[p] > Len(articles[p])
  /\ failures < MaxFailures
  /\ failures' = failures + 1
  /\ Return(p, 0 - 1)
  /\ lastRaised' = p
  /\ scheduler' = "shutdown"
  /\ UNCHANGED <<registered, firings, lastSkipped, clockVars, feeds, probe,
                 engineVars, store, cacheVars, cutoff>>

\* a pass that goes on to the snapshot and the notification although
\* session.commit() raised
CommitErrorStillNotifies(p) ==
  /\ pc[p] = "storing"
  /\ idx[p] > Len(articles[p])
  /\ failures < MaxFailures
  /\ failures' = failures + 1
  /\ txn' = [txn EXCEPT ![p] = NoTxn]
  /\ pc' = [pc EXCEPT ![p] = "cache"]
  /\ UNCHANGED <<schedVars, clockVars, feeds, probe, engineVars, run, pendingFetch,
                 results, articles, idx, stored, store, cacheVars, cutoff,
                 accepted, fetchFailed, injected, wanted, committed, quiet, prev, missed,
                 lastUpsert>>

\* session.commit() raises: the session is closed, fetch_and_store raises and
\* the job body logs the error
CommitError(p) ==
  /\ pc[p] = "storing"
  /\ idx[p] > Len(articles[p])
  /\ failures < MaxFailures
  /\ failures' = failures + 1
  /\ Return(p, 0 - 1)
  /\ lastRaised' = p
  /\ UNCHANGED <<scheduler, registered, firings, lastSkipped, clockVars, feeds,
                 probe, engineVars, store, cacheVars, cutoff>>

\* cache.cache_set_json("latest_articles", ..., ttl=600); ok = FALSE: the
\* cache raises and cache_set returns False
CacheSet(p, ok) ==
  /\ pc[p] = "cache"
  /\ ok \/ failures < MaxFailures
  /\ failures' = IF ok THEN failures ELSE failures + 1
  /\ cache_latest' = IF ok
                     THEN [present |-> TRUE, value |-> Snapshot(articles[p])]
                     ELSE cache_latest
  /\ pc' = [pc EXCEPT ![p] = "publish"]
  /\ quiet' = IF ok THEN quiet ELSE [quiet EXCEPT ![p] = FALSE]
  /\ UNCHANGED <<schedVars, clockVars, feeds, probe, engineVars, run, pendingFetch,
                 results, articles, idx, stored, storeVars, notifications,
                 cutoff, accepted, fetchFailed, injected, wanted, committed, prev, missed,
                 lastUpsert>>

\* a publish whose failure leaves fetch_and_store as an exception
PublishFailureEscapes(p, ok) ==
  /\ pc[p] = "publish"
  /\ ok \/ failures < MaxFailures
  /\ failures' = IF ok THEN failures ELSE failures + 1
  /\ notifications' = IF ok THEN << stored[p] >> ELSE notifications
  /\ Return(p, IF ok THEN stored[p] ELSE 0 - 1)
  /\ lastRaised' = IF ok THEN lastRaised ELSE p
  /\ UNCHANGED <<scheduler, registered, firings, lastSkipped, clockVars, feeds,
                 probe, engineVars, store, cache_latest, cutoff>>

\* cache.publish("news_updates", {"type": "new_articles", "count": stored}),
\* then return stored
Publish(p, ok) ==
  /\ pc[p] = "publish"
  /\ ok \/ failures < MaxFailures
  /\ failures' = IF ok THEN failures ELSE failures + 1
  /\ notifications' = IF ok THEN << stored[p] >> ELSE notifications
  /\ Return(p, stored[p])
  /\ UNCHANGED <<scheduler, registered, firings, lastSkipped, lastRaised, clockVars, feeds, probe, engineVars,
                 store, cache_latest, cutoff>>

(***************************************************************************)
(* cleanup_old_articles and the two briefing jobs.                         *)
(***************************************************************************)
RunCleanup ==
  /\ Due(CleanupJob)
  /\ CanSubmit(inst[CleanupJob])
  /\ firings' = firings + 1
  /\ inst' = [inst EXCEPT ![CleanupJob] = @ + 1]
  /\ cutoff' = now - RetentionMinutes
  /\ quiet' = [p \in PassJobs |-> FALSE]
  /\ UNCHANGED <<scheduler, registered, lastSkipped, lastRaised, clockVars, feeds, probe, engineVars, passVars,
                 storeVars, cacheVars, failures, accepted, fetchFailed, injected, wanted,
                 committed, prev, missed, lastUpsert>>

\* the DELETE and its commit; ok = FALSE: the store raises, the job logs it
CleanupDelete(ok) ==
  /\ inst[CleanupJob] > 0
  /\ ok \/ failures < MaxFailures
  /\ failures' = IF ok THEN failures ELSE failures + 1
  /\ store' = IF ok THEN DeleteOlderThan(store, cutoff) ELSE store
  /\ inst' = [inst EXCEPT ![CleanupJob] = @ - 1]
  /\ cutoff' = 0
  /\ prev' = IF store' # store THEN NoPrev ELSE prev
  /\ lastRaised' = IF ok THEN lastRaised ELSE CleanupJob
  /\ UNCHANGED <<scheduler, registered, firings, lastSkipped, clockVars, feeds,
                 probe, engineVars, passVars, txn, cacheVars, accepted,
                 fetchFailed, injected, wanted, committed, quiet, lastUpsert,
                 missed>>

RunBriefing(j) ==
  /\ Due(j)
  /\ CanSubmit(inst[j])
  /\ firings' = firings + 1
  /\ inst' = [inst EXCEPT ![j] = @ + 1]
  /\ UNCHANGED <<scheduler, registered, lastSkipped, lastRaised, clockVars, feeds, probe, engineVars, passVars,
                 storeVars, cacheVars, cutoff, failures, histVars>>

\* generate_briefing returns and the job body ends
FinishBriefing(j) ==
  /\ inst[j] > 0
  /\ inst' = [inst EXCEPT ![j] = @ - 1]
  /\ UNCHANGED <<scheduler, registered, firings, lastSkipped, lastRaised,
                 clockVars, feeds, probe, engineVars, passVars, storeVars,
                 cacheVars, cutoff, failures, histVars>>

\* generate_briefing raises; the job body logs the error and ends
BriefingError(j) ==
  /\ inst[j] > 0
  /\ failures < MaxFailures
  /\ failures' = failures + 1
  /\ inst' = [inst EXCEPT ![j] = @ - 1]
  /\ lastRaised' = j
  /\ UNCHANGED <<scheduler, registered, firings, lastSkipped, clockVars, feeds,
                 probe, engineVars, passVars, storeVars, cacheVars, cutoff,
                 histVars>>

Next ==
  \/ start_scheduler
  \/ stop_scheduler
  \/ \E j \in Jobs : SkipRun(j)
  \/ \E d \in TickSteps : Tick(d)
  \/ \E p \in PassJobs : RunPass(p)
  \/ \E p \in PassJobs, s \in Sources : FetchOk(p, s)
  \/ \E p \in PassJobs, s \in Sources : FetchFail(p, s)
  \/ \E p \in PassJobs : Gather(p)
  \/ \E p \in PassJobs : Upsert(p)
  \/ \E p \in PassJobs, kind \in {"client", "server"} : UpsertError(p, kind)
  \/ \E p \in PassJobs : UpsertInFailedTxn(p)
  \/ \E p \in PassJobs : Commit(p)
  \/ \E p \in PassJobs : CommitError(p)
  \/ \E p \in PassJobs, ok \in BOOLEAN : CacheSet(p, ok)
  \/ \E p \in PassJobs, ok \in BOOLEAN : Publish(p, ok)
  \/ RunCleanup
  \/ \E ok \in BOOLEAN : CleanupDelete(ok)
  \/ \E j \in BriefingJobs : RunBriefing(j)
  \/ \E j \in BriefingJobs : FinishBriefing(j)
  \/ \E j \in BriefingJobs : BriefingError(j)

Spec == Init /\ [][Next]_vars

(***************************************************************************)
(* One ingestion run alone, on richer feed contents: the scheduler starts, *)
(* one of the two ingestion jobs fires once and runs to its end; fetches   *)
(* may fail, the store and the cache work.                                 *)
(***************************************************************************)
InitParse == InitState(ParseConfigs, {NoProbe})

RunOnce(p) == firings = 0 /\ RunPass(p)

NextParse ==
  \/ start_scheduler
  \/ \E p \in PassJobs : RunOnce(p)
  \/ \E p \in PassJobs, s \in Sources : FetchOk(p, s)
  \/ \E p \in PassJobs, s \in Sources : FetchFail(p, s)
  \/ \E p \in PassJobs : Gather(p)
  \/ \E p \in PassJobs : Upsert(p)
  \/ \E p \in PassJobs : Commit(p)
  \/ \E p \in PassJobs : CacheSet(p, TRUE)
  \/ \E p \in PassJobs : Publish(p, TRUE)

SpecParse == InitParse /\ [][NextParse]_vars

(***************************************************************************)
(* Slow sources: one ingestion run in which any subset of the sources      *)
(* exceeds the session's ClientTimeout(total=30).  A request that stays    *)
(* pending ends by asyncio.TimeoutError, and gather returns once every     *)
(* task is done: the fairness conditions say that.                         *)
(***************************************************************************)
\* a timeout that cancels the whole run: the exception leaves fetch_and_store
FetchTimeoutCancelsRun(p, s) ==
  /\ pc[p] = "fetching"
  /\ s \in pendingFetch[p]
  /\ Return(p, 0 - 1)
  /\ lastRaised' = p
  /\ UNCHANGED <<scheduler, registered, firings, lastSkipped, clockVars, feeds,
                 probe, engineVars, storeVars, cacheVars, cutoff, failures>>

\* session.get(url) exceeds the timeout: _fetch_feed catches
\* asyncio.TimeoutError and returns its empty list
FetchTimeout(p, s) ==
  /\ pc[p] = "fetching"
  /\ s \in pendingFetch[p]
  /\ pendingFetch' = [pendingFetch EXCEPT ![p] = @ \ {s}]
  /\ results' = [results EXCEPT ![p][s] = << >>]
  /\ quiet' = [quiet EXCEPT ![p] = FALSE]
  /\ fetchFailed' = [fetchFailed EXCEPT ![p] = @ \cup {s}]
  /\ UNCHANGED <<schedVars, clockVars, feeds, probe, engineVars, run, pc, articles,
                 idx, stored, storeVars, cacheVars, cutoff, failures, accepted,
                 injected, wanted, committed, prev, missed, lastUpsert>>

\* upstream contents of a few entries each
SlowConfigs == FeedConfigs \cup {IncompleteFeeds, TiedFeeds}

InitSlow == InitState(SlowConfigs, {NoProbe})

NextSlow ==
  \/ start_scheduler
  \/ \E p \in PassJobs : RunOnce(p)
  \/ \E p \in PassJobs, s \in Sources : FetchOk(p, s)
  \/ \E p \in PassJobs, s \in Sources : FetchTimeout(p, s)
  \/ \E p \in PassJobs : Gather(p)
  \/ \E p \in PassJobs : Upsert(p)
  \/ \E p \in PassJobs : Commit(p)
  \/ \E p \in PassJobs : CacheSet(p, TRUE)
  \/ \E p \in PassJobs : Publish(p, TRUE)

SpecSlow ==
  /\ InitSlow
  /\ [][NextSlow]_vars
  /\ \A p \in PassJobs, s \in Sources : WF_vars(FetchTimeout(p, s))
  /\ \A p \in PassJobs : WF_vars(Gather(p))

(***************************************************************************)
(* Store outage: the database is out of reach for the whole life of the    *)
(* process.  Every session.execute raises.  session.commit() has nothing   *)
(* to send when no statement ever got a connection and returns; when the   *)
(* connection was lost after the session got it, commit raises as well.    *)
(***************************************************************************)
\* session.execute(stmt) raises while the store is out of reach
UpsertUnavailable(p) ==
  /\ Storing(p)
  /\ idx' = [idx EXCEPT ![p] = @ + 1]
  /\ injected' = [injected EXCEPT ![p] = @ \cup {idx[p]}]
  /\ quiet' = [quiet EXCEPT ![p] = FALSE]
  /\ lastUpsert' = [job |-> p, outcome |-> "client", wrote |-> FALSE,
                    counted |-> FALSE, stale |-> FALSE]
  /\ UNCHANGED <<schedVars, clockVars, feeds, probe, engineVars, run, pc, pendingFetch,
                 results, articles, stored, storeVars, cacheVars, cutoff, failures,
                 accepted, fetchFailed, wanted, committed, prev, missed>>

\* session.commit() raises while the store is out of reach: fetch_and_store
\* raises and the job body logs the error
CommitUnavailable(p) ==
  /\ pc[p] = "storing"
  /\ idx[p] > Len(articles[p])
  /\ Return(p, 0 - 1)
  /\ lastRaised' = p
  /\ UNCHANGED <<scheduler, registered, firings, lastSkipped, clockVars, feeds,
                 probe, engineVars, store, cacheVars, cutoff, failures>>

InitOutage == InitState(FeedConfigs, {NoProbe})

NextOutage ==
  \/ start_scheduler
  \/ \E p \in PassJobs : RunPass(p)
  \/ \E p \in PassJobs : SkipRun(p)
  \/ \E p \in PassJobs, s \in Sources : FetchOk(p, s)
  \/ \E p \in PassJobs : Gather(p)
  \/ \E p \in PassJobs : UpsertUnavailable(p)
  \/ \E p \in PassJobs : Commit(p)
  \/ \E p \in PassJobs : CommitUnavailable(p)
  \/ \E p \in PassJobs : CacheSet(p, TRUE)
  \/ \E p \in PassJobs : Publish(p, TRUE)

SpecOutage == InitOutage /\ [][NextOutage]_vars

(***************************************************************************)
(* A reader of the snapshot: one call of get_cached_latest at any moment   *)
(* of a process that runs ingestion passes, with the cache in or out of    *)
(* reach, before the first snapshot, after a snapshot, and after the key   *)
(* has expired.                                                            *)
(***************************************************************************)
ReadCall == [fn |-> "get_cached_latest", result |-> << >>, reached |-> TRUE]

\* rss_engine.get_cached_latest(); ok says whether the cache can be reached
get_cached_latest(ok) ==
  /\ probe.fn = "get_cached_latest"
  /\ probe.result = << >>
  /\ probe' = [probe EXCEPT !.result = << cache_get_json(cache_latest, ok) >>,
                             !.reached = ok]
  /\ UNCHANGED <<schedVars, clockVars, feeds, engineVars, passVars, storeVars,
                 cacheVars, cutoff, failures, histVars>>

\* the time to live of the key runs out while no job runs
TickPastTtl ==
  /\ ticks < MaxTicks
  /\ \A j \in Jobs : inst[j] = 0
  /\ cache_latest.present
  /\ ticks' = ticks + 1
  /\ now' = now + SnapshotTtlMinutes
  /\ cache_latest' = NoSnapshot
  /\ UNCHANGED <<schedVars, feeds, probe, engineVars, passVars, storeVars,
                 notifications, cutoff, failures, histVars>>

InitRead == InitState(FeedConfigs, {ReadCall})

NextRead ==
  \/ start_scheduler
  \/ \E p \in PassJobs : RunPass(p)
  \/ \E p \in PassJobs, s \in Sources : FetchOk(p, s)
  \/ \E p \in PassJobs : Gather(p)
  \/ \E p \in PassJobs : Upsert(p)
  \/ \E p \in PassJobs : Commit(p)
  \/ \E p \in PassJobs, ok \in BOOLEAN : CacheSet(p, ok)
  \/ \E p \in PassJobs : Publish(p, TRUE)
  \/ TickPastTtl
  \/ \E ok \in BOOLEAN : get_cached_latest(ok)

SpecRead == InitRead /\ [][NextRead]_vars

(***************************************************************************)
(* Direct calls of _parse_entry on an engine that has accepted several     *)
(* thousand entries since the last clear: its nth title is "t" and the     *)
(* four digits of n, its nth link "u" and the same digits.  No two of      *)
(* these titles are near-duplicates of each other.                         *)
(***************************************************************************)
MaxCalls == 3

FourDigits(n) == TwoDigits(n \div 100) \o TwoDigits(n % 100)

EngineAfter(n) ==
  [seen_urls |-> {UrlHash("u" \o FourDigits(k)) : k \in 1..n},
   seen_titles |-> [k \in 1..n |-> "t" \o FourDigits(k)]]

FilledEngines ==
  {EngineAfter(n) : n \in {SeenTitlesCap - 2, SeenTitlesCap - 1, SeenTitlesCap}}

\* entries that are new, that repeat a link or a recent title of the engine,
\* one without a title, and a new one whose summary, date or image raises
OfferedEntries ==
  { Entry("fresh", "f1"), Entry("novel", "f2"), Entry("zebra", "f3"),
    Entry("T" \o FourDigits(SeenTitlesCap - 2), "f4"),
    Entry("quake", "u" \o FourDigits(SeenTitlesCap - 2)),
    EntryNoTitle("f5"),
    EntryRaising("omega", "f6") }

ParseCall == [fn |-> "_parse_entry", calls |-> 0, entry |-> << >>]

InitTitles == InitIn(FeedConfigs, {ParseCall}, {{}}, FilledEngines)

CallParseEntry(entry) ==
  /\ probe.fn = "_parse_entry"
  /\ probe.calls < MaxCalls
  /\ LET st0 == [seen_urls |-> seen_urls, seen_titles |-> seen_titles,
                 articles |-> << >>]
         st == _parse_entry(st0, entry, RSS_FEEDS[1], now,
                            <<0, RSS_FEEDS[1].name, probe.calls + 1>>)
     IN /\ seen_urls' = st.seen_urls
        /\ seen_titles' = st.seen_titles
  /\ probe' = [probe EXCEPT !.calls = @ + 1, !.entry = << entry >>]
  /\ UNCHANGED <<schedVars, clockVars, feeds, passVars, storeVars, cacheVars,
                 cutoff, failures, histVars>>

NextTitles == \E entry \in OfferedEntries : CallParseEntry(entry)

SpecTitles == InitTitles /\ [][NextTitles]_vars

(***************************************************************************)
(* Repair by later passes: ingestion passes in which a fetch, a statement  *)
(* or the commit can fail, on a scheduler that goes on firing and with a   *)
(* source and a store that answer in the end.  The fairness conditions say *)
(* that a due pass is fired, a pending fetch is answered, a statement and  *)
(* a commit return, and the server ends a wait of two transactions for     *)
(* each other.                                                             *)
(***************************************************************************)
\* the server aborts one of two transactions that wait for each other
DeadlockAbort(p) ==
  Blocked(p) /\ Blocked(Other(p)) /\ UpsertError(p, "server")

InitHeal ==
  InitLogged(FeedConfigs, {NoProbe}, {{}}, {NewEngine}, {KeptNone})

NextHeal ==
  \/ start_scheduler
  \/ \E p \in PassJobs : RunPass(p)
  \/ \E p \in PassJobs, s \in Sources : FetchOk(p, s)
  \/ \E p \in PassJobs, s \in Sources : FetchFail(p, s)
  \/ \E p \in PassJobs : Gather(p)
  \/ \E p \in PassJobs : Upsert(p)
  \/ \E p \in PassJobs, kind \in {"client", "server"} : UpsertError(p, kind)
  \/ \E p \in PassJobs : UpsertInFailedTxn(p)
  \/ \E p \in PassJobs : Commit(p)
  \/ \E p \in PassJobs : CommitError(p)
  \/ \E p \in PassJobs : CacheSet(p, TRUE)
  \/ \E p \in PassJobs : Publish(p, TRUE)

\* the next step of call p when nothing fails in it: the event loop resumes
\* a coroutine whose await has completed
PassStep(p) ==
  \/ \E s \in Sources : FetchOk(p, s)
  \/ Gather(p)
  \/ Upsert(p)
  \/ DeadlockAbort(p)
  \/ UpsertInFailedTxn(p)
  \/ Commit(p)
  \/ CacheSet(p, TRUE)
  \/ Publish(p, TRUE)

SpecHeal ==
  /\ InitHeal
  /\ [][NextHeal]_vars
  /\ \A p \in PassJobs : WF_vars(PassStep(p))

(***************************************************************************)
(* Retention: the process starts on a table that holds rows of earlier     *)
(* runs, ingested 29 days, 30 days, 30 days and a minute, and 31 days      *)
(* before the start, with publication times on either side of the         *)
(* retention horizon; one ingestion run and the cleanup job follow.        *)
(***************************************************************************)
EarlierRow(n, ingested, published) ==
  Article(<<0, RSS_FEEDS[1].name, n>>, "earlier " \o Digits[n + 1], "",
          RSS_FEEDS[1], "e" \o Digits[n + 1], published, ingested)

EarlierRows ==
  { EarlierRow(1, 0 - 29 * OneDay, 0 - 60 * OneDay),
    EarlierRow(2, 0 - RetentionMinutes, 0 - RetentionMinutes),
    EarlierRow(3, 0 - (RetentionMinutes + 1), 0 - OneDay),
    EarlierRow(4, 0 - 31 * OneDay, 0 - 29 * OneDay),
    EarlierRow(5, 0 - 31 * OneDay, 0 - 40 * OneDay) }

InitRetention == InitWith(FeedConfigs, {NoProbe}, {EarlierRows})

NextRetention ==
  \/ start_scheduler
  \/ \E d \in TickSteps : Tick(d)
  \/ \E p \in PassJobs : RunPass(p)
  \/ \E p \in PassJobs, s \in Sources : FetchOk(p, s)
  \/ \E p \in PassJobs : Gather(p)
  \/ \E p \in PassJobs : Upsert(p)
  \/ \E p \in PassJobs : Commit(p)
  \/ \E p \in PassJobs : CacheSet(p, TRUE)
  \/ \E p \in PassJobs : Publish(p, TRUE)
  \/ RunCleanup
  \/ \E ok \in BOOLEAN : CleanupDelete(ok)

SpecRetention == InitRetention /\ [][NextRetention]_vars

(***************************************************************************)
(* Direct calls of the two pure methods of the engine, one call per        *)
(* behaviour: probe holds the arguments and, after the call, the value     *)
(* returned.  The clock stands at 0, so an argument published_at of -a is  *)
(* an age of a minutes.  seen records how many links the engine had seen   *)
(* when the call was made.                                                 *)
(***************************************************************************)
MaxTier == 5

ScoreCall(text, priority, published_at) ==
  [fn |-> "_calculate_importance", title |-> text[1], summary |-> text[2],
   priority |-> priority, published_at |-> published_at, returned |-> << >>,
   seen |-> << >>]

ClassifyCall(title, summary) ==
  [fn |-> "_classify_category", title |-> title, summary |-> summary,
   returned |-> << >>]

\* texts with no, one and several breaking keywords and with zero to six
\* high-importance keywords
ScoreTexts ==
  { <<"quiet day", "">>, <<"urgent", "">>, <<"BREAKING: coup", "crisis">>,
    <<"Sanctions", "">>, <<"NATO and G7", "sanctions">>,
    <<"president killed", "dead wounded">>,
    <<"president killed dead", "wounded displaced pandemic">>,
    <<"mass shooting", "president dead, wounded, displaced">> }

\* ages on both sides of every band limit, and a time in the future
ScoreAges ==
  {0 - 5, 0, HalfHour - 1, HalfHour, OneHour - 1, OneHour, OneDay, OneDay + 1}

ScoreCalls ==
  {ScoreCall(text, tier, 0 - age) :
     text \in ScoreTexts, tier \in 1..MaxTier, age \in ScoreAges}

\* the text of three keywords, alone and followed by one keyword of one
\* other category
ThreeKeywords == "ceasefire summit ambassador"

OtherCategories ==
  {c \in DOMAIN CATEGORY_KEYWORDS : CATEGORY_KEYWORDS[c].cat # "diplomacy"}

OneMoreKeyword ==
  UNION {{CATEGORY_KEYWORDS[c].keywords[k] :
            k \in DOMAIN CATEGORY_KEYWORDS[c].keywords} : c \in OtherCategories}

\* texts without a keyword, with one leading category, and with ties
ClassifyTexts ==
  { <<"quiet day", "">>, <<"war summit", "">>, <<"summit war", "">>,
    <<"treaty summit war", "">>, <<"vaccine flood", "virus">>,
    <<"flood vaccine", "">>, <<"Sanctions", "">>, <<"riot", "firewall VPN">>,
    <<ThreeKeywords, "">> }

ClassifyCalls ==
  {ClassifyCall(text[1], text[2]) : text \in ClassifyTexts}
    \cup {ClassifyCall(ThreeKeywords, kw) : kw \in OneMoreKeyword}

InitPure == InitState(FeedConfigs, ScoreCalls \cup ClassifyCalls)

CallImportance ==
  /\ probe.fn = "_calculate_importance"
  /\ probe.returned = << >>
  /\ probe' = [probe EXCEPT !.returned =
                 << _calculate_importance(probe.title, probe.summary,
                                          probe.priority, probe.published_at,
                                          now) >>,
                             !.seen = << Cardinality(seen_urls) >>]
  /\ UNCHANGED <<schedVars, clockVars, feeds, engineVars, passVars, storeVars,
                 cacheVars, cutoff, failures, histVars>>

CallClassify ==
  /\ probe.fn = "_classify_category"
  /\ probe.returned = << >>
  /\ probe' = [probe EXCEPT !.returned =
                 << _classify_category(probe.title, probe.summary) >>]
  /\ UNCHANGED <<schedVars, clockVars, feeds, engineVars, passVars, storeVars,
                 cacheVars, cutoff, failures, histVars>>

\* the same call once more, at whatever state the engine has reached
CallAgain ==
  /\ probe.fn = "_calculate_importance"
  /\ Len(probe.returned) = 1
  /\ probe' = [probe EXCEPT !.returned =
                 Append(@, _calculate_importance(probe.title, probe.summary,
                                                 probe.priority,
                                                 probe.published_at, now)),
                             !.seen = Append(@, Cardinality(seen_urls))]
  /\ UNCHANGED <<schedVars, clockVars, feeds, engineVars, passVars, storeVars,
                 cacheVars, cutoff, failures, histVars>>

NextPure == CallImportance \/ CallClassify

SpecPure == InitPure /\ [][NextPure]_vars

(***************************************************************************)
(* One ingestion run with two direct calls of _calculate_importance on the *)
(* same arguments placed anywhere before, within and after it; the clock   *)
(* stands still.  The arguments are those of the run's own candidates and  *)
(* of the same texts at another tier and age.                              *)
(***************************************************************************)
RepeatedCalls ==
  {ScoreCall(<<title, "">>, tier, 0 - age) :
     title \in {"war", "wars", "Summit"}, tier \in 1..2, age \in {0, OneHour}}

InitRepeat == InitState(FeedConfigs, RepeatedCalls)

NextRepeat ==
  \/ start_scheduler
  \/ \E p \in PassJobs : RunOnce(p)
  \/ \E p \in PassJobs, s \in Sources : FetchOk(p, s)
  \/ \E p \in PassJobs, s \in Sources : FetchFail(p, s)
  \/ \E p \in PassJobs : Gather(p)
  \/ \E p \in PassJobs : Upsert(p)
  \/ \E p \in PassJobs : Commit(p)
  \/ \E p \in PassJobs : CacheSet(p, TRUE)
  \/ \E p \in PassJobs : Publish(p, TRUE)
  \/ CallImportance
  \/ CallAgain

SpecRepeat == InitRepeat /\ [][NextRepeat]_vars

(***************************************************************************)
(* One ingestion run next to direct calls of _classify_category.           *)
(***************************************************************************)
InitCategory == InitState(FeedConfigs \cup {ScoredFeeds}, ClassifyCalls)

NextCategory ==
  \/ start_scheduler
  \/ \E p \in PassJobs : RunOnce(p)
  \/ \E p \in PassJobs, s \in Sources : FetchOk(p, s)
  \/ \E p \in PassJobs : Gather(p)
  \/ \E p \in PassJobs : Upsert(p)
  \/ \E p \in PassJobs : Commit(p)
  \/ \E p \in PassJobs : CacheSet(p, TRUE)
  \/ \E p \in PassJobs : Publish(p, TRUE)
  \/ CallClassify

SpecCategory == InitCategory /\ [][NextCategory]_vars

(***************************************************************************)
(* One ingestion run over feeds with an entry whose summary, date or image *)
(* raises inside _parse_entry; the loop of _fetch_feed logs it and goes on *)
(* with the next entry.                                                    *)
(***************************************************************************)
\* after the raising entry, an entry with its link and an entry of the other
\* source with a near-identical title
RaisingFeeds ==
  Feeds(<< EntryRaising("flood", "r1"), Entry("storm", "r1") >>,
        << Entry("floods", "r2"), Entry("delta", "d1") >>)

\* a title and a link of whitespace only
BlankFeeds ==
  Feeds(<< Entry("  ", "w1"), Entry("alpha", "a1") >>,
        << Entry("beta", " ") >>)

InitRaise ==
  InitState({RaisingFeeds, BlankFeeds, IncompleteFeeds, TiedFeeds}, {NoProbe})

NextRaise ==
  \/ start_scheduler
  \/ \E p \in PassJobs : RunOnce(p)
  \/ \E p \in PassJobs, s \in Sources : FetchOk(p, s)
  \/ \E p \in PassJobs, s \in Sources : FetchFail(p, s)
  \/ \E p \in PassJobs : Gather(p)
  \/ \E p \in PassJobs : Upsert(p)
  \/ \E p \in PassJobs : Commit(p)
  \/ \E p \in PassJobs : CacheSet(p, TRUE)
  \/ \E p \in PassJobs : Publish(p, TRUE)

SpecRaise == InitRaise /\ [][NextRaise]_vars

(***************************************************************************)
(* Claims.                                                                 *)
(***************************************************************************)
\* the step ends the call of p / the value the call returns (-1: it raised)
Returns(p) == InFlight(p) /\ pc'[p] = "idle"
ReturnValue(p) ==
  IF pc[p] = "publish" THEN stored[p]
  ELSE IF pc[p] = "fetching" THEN 0
  ELSE 0 - 1

\* the call of p in flight repeats the quiet call that last changed the store
QuietRerun(p) == InFlight(p) /\ prev = p /\ quiet[p]

\* C1: when fetch_and_store is run twice in a row against the same upstream
\* contents, alone and with no failure and no cleanup in between, the second
\* run leaves the stored set as the first run left it and returns 0, whatever
\* the order in which the fetches of each run complete.
C1_Idempotent ==
  [][\A p \in PassJobs :
       (QuietRerun(p) /\ failures' = failures) =>
         /\ store' = store
         /\ Returns(p) => ReturnValue(p) = 0]_vars

\* C2: no two stored items have the same url, and an upsert of a url that is
\* already in the table writes nothing and is not counted as inserted.
C2_UrlUnique ==
  /\ \A r1 \in store : \A r2 \in store : r1.url = r2.url => r1 = r2
  /\ lastUpsert.outcome = "conflict" => ~lastUpsert.wrote /\ ~lastUpsert.counted

\* a run has upserted a url that is already stored
C2_Witness ==
  /\ lastUpsert.outcome = "conflict"
  /\ store # {}

\* C3: first writer wins: whatever step is taken, a url that stays stored
\* keeps exactly the item it had, with every field (id, title, region,
\* category, scraped_at, importance_score) as first inserted.
C3_FirstWriterWins ==
  [][\A r \in store :
       r.url \in Urls(store') => {n \in store' : n.url = r.url} = {r}]_vars

\* a run has committed after upserting a url whose stored item differs from
\* the candidate it carried
C3_Witness ==
  \E p \in PassJobs :
    /\ pc[p] = "cache"
    /\ lastUpsert.job = p
    /\ lastUpsert.outcome = "conflict"
    /\ lastUpsert.stale

\* C4: the value fetch_and_store returns is the number of items its commit
\* added to the store, also when an upsert of the batch raised.
C4_ReturnsInsertedCount ==
  [][\A p \in PassJobs :
       (Returns(p) /\ ReturnValue(p) >= 0) =>
         ReturnValue(p) = Cardinality(committed[p])]_vars

\* C5: when the upsert of one candidate raises, every other candidate of the
\* batch whose url was not yet stored is persisted by the commit of the call.
C5_FailureSkipsOneItem ==
  \A p \in PassJobs :
    pc[p] \in {"cache", "publish"} => wanted[p] \subseteq committed[p]

\* C6: at most one instance of each of the five jobs is executing at any
\* time; a run that comes due while one is executing is skipped.
C6_OneInstancePerJob ==
  \A j \in Jobs : inst[j] <= 1

\* a run of a job was skipped while its previous instance is still executing
C6_Witness ==
  \E j \in Jobs : lastSkipped = j /\ inst[j] = 1

\* C7: a tier-1 pass and a full pass are never in flight together.
C7_IngestionNeverOverlaps ==
  ~(InFlight("fetch_priority_feeds") /\ InFlight("fetch_all_feeds"))

\* C8: between the start and the end of a pass the dedup state is not cleared
\* by another pass: while the pass is fetching, every candidate it has
\* accepted so far is still in seen_urls and seen_titles.
C8_DedupStateLivesOnePass ==
  \A p \in PassJobs :
    pc[p] = "fetching" =>
      \A i \in DOMAIN accepted[p] :
        /\ UrlHash(accepted[p][i].url) \in seen_urls
        /\ \E k \in DOMAIN seen_titles : seen_titles[k] = accepted[p][i].title

\* C9: the candidate list one call of fetch_all_feeds returns never holds two
\* candidates with the same link.
C9_NoLinkTwiceInPass ==
  \A p \in PassJobs :
    \A i \in DOMAIN articles[p] : \A j \in DOMAIN articles[p] :
      i # j => articles[p][i].url # articles[p][j].url

\* C10: of two entries of one pass whose lowercased titles have a similarity
\* ratio of at least 0.85, only the first one processed is accepted.
C10_NoNearDuplicateTitleInPass ==
  \A p \in PassJobs :
    \A i \in DOMAIN accepted[p] : \A j \in DOMAIN accepted[p] :
      i < j => ~RatioAtLeastThreshold(Lower(accepted[p][j].title),
                                      Lower(accepted[p][i].title))

\* positions of the candidates of source s in a list
FromSource(list, s) ==
  {i \in DOMAIN list : list[i].source_name = RSS_FEEDS[s].name}

\* C11: a failing fetch hands gather an empty list and the call goes on;
\* when gather returns, all fetches are over, the call does not raise, no
\* candidate of a failed source is in the pass result, and every candidate
\* accepted from the other sources is in it.
C11_SourceFailureIsolated ==
  [][\A p \in PassJobs :
       pc[p] = "fetching" =>
         /\ \A s \in fetchFailed'[p] \ fetchFailed[p] :
              /\ pc'[p] = "fetching"
              /\ results'[p][s] = << >>
              /\ accepted'[p] = accepted[p]
         /\ pc'[p] # "fetching" =>
              /\ pendingFetch[p] = {}
              /\ pc'[p] = IF accepted[p] = << >> THEN "idle" ELSE "storing"
              /\ pc'[p] = "storing" =>
                   /\ \A s \in fetchFailed[p] : FromSource(articles'[p], s) = {}
                   /\ Len(articles'[p]) = Len(accepted[p])
                   /\ \A i \in DOMAIN accepted[p] :
                        \E k \in DOMAIN articles'[p] :
                          articles'[p][k] = accepted[p][i]]_vars

\* a full pass in which one source failed hands the candidates of the other
\* source to the store writer
C11_Witness ==
  /\ pc["fetch_all_feeds"] = "storing"
  /\ Cardinality(fetchFailed["fetch_all_feeds"]) = 1
  /\ articles["fetch_all_feeds"] # << >>

\* the entry has no title or no link attribute, or an empty one
LacksTitleOrLink(e) ==
  ~e.has_title \/ e.title = "" \/ ~e.has_link \/ e.link = ""

\* the complete entries of the feeds, their links and titles
CompleteEntries ==
  UNION {{feeds[s][k] : k \in DOMAIN feeds[s]} : s \in Sources}
    \ {e \in UNION {{feeds[s][k] : k \in DOMAIN feeds[s]} : s \in Sources} :
          LacksTitleOrLink(e)}
CompleteLinks == {Strip(e.link) : e \in CompleteEntries}
CompleteTitles == {Strip(e.title) : e \in CompleteEntries}

\* C13: an entry without a title or without a link yields no candidate (so
\* it is neither classified nor scored), and its link and title enter
\* seen_urls and seen_titles only if a complete entry carries the same.
C13_IncompleteEntryDropped ==
  \A s \in Sources : \A k \in DOMAIN feeds[s] :
    LacksTitleOrLink(feeds[s][k]) =>
      /\ \A p \in PassJobs : \A i \in DOMAIN accepted[p] :
           accepted[p][i].id # <<run[p], RSS_FEEDS[s].name, k>>
      /\ Strip(feeds[s][k].link) \notin CompleteLinks =>
           UrlHash(Strip(feeds[s][k].link)) \notin seen_urls
      /\ Strip(feeds[s][k].title) \notin CompleteTitles =>
           \A i \in DOMAIN seen_titles :
             seen_titles[i] # Strip(feeds[s][k].title)

\* both feeds with incomplete entries were parsed by a full pass, which
\* kept their two complete entries
C13_Witness ==
  /\ feeds = IncompleteFeeds
  /\ pc["fetch_all_feeds"] = "storing"
  /\ fetchFailed["fetch_all_feeds"] = {}
  /\ Len(articles["fetch_all_feeds"]) = 2

\* the body of job j catches an exception in this step
Raises(j) ==
  /\ lastRaised' = j
  /\ failures' > failures
  /\ lastRaised # j \/ inst'[j] # inst[j]

\* C12: when the body of a job catches an exception (store failure in an
\* ingestion job or the cleanup, collaborator failure in a briefing job),
\* that firing ends, no other job instance and no other call is touched, the
\* scheduler and its job store stay as they are, and the job can be
\* submitted again at its next firing.
C12_JobBodiesWrapped ==
  [][\A j \in Jobs :
       Raises(j) =>
         /\ inst'[j] = inst[j] - 1
         /\ \A k \in Jobs \ {j} : inst'[k] = inst[k]
         /\ \A p \in PassJobs \ {j} : pc'[p] = pc[p]
         /\ scheduler' = scheduler
         /\ registered' = registered
         /\ j \in registered'
         /\ CanSubmit(inst'[j])]_vars

\* a job is running again after its body caught an exception
C12_Witness ==
  \E j \in Jobs : lastRaised = j /\ inst[j] = 1
(***************************************************************************)
(* C14: the importance_score of every candidate and of every stored item   *)
(* lies in [0, 10], whatever its source tier, keyword hits and age (also   *)
(* published in the future or more than 24 hours ago); an item of a tier-1 *)
(* source published less than 30 minutes before it was scored, with a      *)
(* breaking keyword and at least one high-importance keyword, scores at    *)
(* least 3 and at most 10.                                                 *)
(***************************************************************************)
ScoredItems ==
  store \cup UNION {{accepted[p][i] : i \in DOMAIN accepted[p]} \cup
                    {articles[p][i] : i \in DOMAIN articles[p]} : p \in PassJobs}

TierOf(a) ==
  RSS_FEEDS[CHOOSE s \in Sources : RSS_FEEDS[s].name = a.source_name].priority

AgeWhenScored(a) == a.scraped_at - a.published_at

FreshTier1Breaking(a) ==
  LET text == Lower(a.title \o " " \o a.summary)
  IN /\ TierOf(a) = 1
     /\ AgeWhenScored(a) < HalfHour
     /\ \E k \in DOMAIN BREAKING_KEYWORDS :
          Contains(text, Lower(BREAKING_KEYWORDS[k]))
     /\ \E k \in DOMAIN HIGH_IMPORTANCE_KEYWORDS :
          Contains(text, Lower(HIGH_IMPORTANCE_KEYWORDS[k]))

C14_ScoreInRange ==
  \A a \in ScoredItems :
    /\ a.importance_score >= 0
    /\ a.importance_score <= 10
    /\ FreshTier1Breaking(a) => a.importance_score >= 3

\* stored after one run: a fresh tier-1 breaking item whose terms add up to
\* more than 10, an item published in the future and one older than 24 hours
C14_Witness ==
  /\ \E a \in store :
       /\ FreshTier1Breaking(a)
       /\ ImportanceUnclamped(KeywordBonus(a.title, a.summary), TierOf(a),
                              a.published_at, a.scraped_at) > 10
  /\ \E a \in store : AgeWhenScored(a) < 0
  /\ \E a \in store : AgeWhenScored(a) > OneDay

(***************************************************************************)
(* C15: the score is clamp(max(0, 4 - tier) + (3 if at least one breaking  *)
(* keyword occurs, counted once) + min(number of distinct high-importance  *)
(* keywords that occur, 4) + recency, 0, 10), where recency is +2 for an   *)
(* age under 30 minutes, +1 from 30 minutes to under one hour, 0 from one  *)
(* hour to 24 hours and -1 beyond 24 hours.                                *)
(***************************************************************************)
Occurring(keywords, title, summary) ==
  {kw \in {Lower(keywords[k]) : k \in DOMAIN keywords} :
     Contains(Lower(title \o " " \o summary), kw)}

Recency(age) ==
  CASE age < 30 -> 2
    [] age >= 30 /\ age < 60 -> 1
    [] age >= 60 /\ age <= 24 * 60 -> 0
    [] age > 24 * 60 -> 0 - 1

Clamp(x, lo, hi) == IF x < lo THEN lo ELSE IF x > hi THEN hi ELSE x

ScoreOfClaim(title, summary, tier, age) ==
  Clamp((IF 4 - tier > 0 THEN 4 - tier ELSE 0)
        + (IF Occurring(BREAKING_KEYWORDS, title, summary) # {} THEN 3 ELSE 0)
        + (LET n == Cardinality(Occurring(HIGH_IMPORTANCE_KEYWORDS, title,
                                          summary))
           IN IF n < 4 THEN n ELSE 4)
        + Recency(age), 0, 10)

ScoreReturned ==
  probe.fn = "_calculate_importance" /\ probe.returned # << >>

C15_ScoreFormula ==
  ScoreReturned =>
    probe.returned[1] = ScoreOfClaim(probe.title, probe.summary,
                                     probe.priority, now - probe.published_at)

\* a call that meets both clamps' neighbours: several breaking keywords and
\* five high-importance keywords on a fresh tier-1 text
C15_Witness ==
  /\ ScoreReturned
  /\ probe.priority = 1
  /\ now - probe.published_at < 30
  /\ Cardinality(Occurring(HIGH_IMPORTANCE_KEYWORDS, probe.title,
                           probe.summary)) > 4
  /\ probe.returned[1] = 10

(***************************************************************************)
(* C16: scoring is pure.  With the clock fixed, two calls with the same    *)
(* title, summary, tier and published_at return the same score whatever    *)
(* the engine has seen in between, and a candidate carries the score a     *)
(* direct call with its arguments returns, in whatever order the feeds     *)
(* were processed.                                                         *)
(***************************************************************************)
SameArguments(a) ==
  /\ a.title = probe.title
  /\ a.summary = probe.summary
  /\ TierOf(a) = probe.priority
  /\ a.published_at = probe.published_at
  /\ a.scraped_at = now

ClassifyReturned ==
  probe.fn = "_classify_category" /\ probe.returned # << >>

CountOf(c) ==
  Cardinality(Occurring(CATEGORY_KEYWORDS[c].keywords, probe.title,
                        probe.summary))

C17_HighestCountFirstDeclared ==
  ClassifyReturned =>
    IF \A c \in DOMAIN CATEGORY_KEYWORDS : CountOf(c) = 0
    THEN probe.returned[1] = "general"
    ELSE \E c \in DOMAIN CATEGORY_KEYWORDS :
           /\ probe.returned[1] = CATEGORY_KEYWORDS[c].cat
           /\ CountOf(c) > 0
           /\ \A d \in DOMAIN CATEGORY_KEYWORDS :
                /\ CountOf(d) <= CountOf(c)
                /\ d < c => CountOf(d) < CountOf(c)

\* a tie of two categories, the keyword of the later declared one first in
\* the text
C17_Witness ==
  /\ ClassifyReturned
  /\ probe.title = "summit war"
  /\ probe.returned = << "conflict" >>

(***************************************************************************)
(* C18: a text with "ceasefire", "summit" and "ambassador" classifies as   *)
(* diplomacy, and it still does when exactly one keyword of any one other  *)
(* category is added to it.                                                *)
(***************************************************************************)
C18_ThreeKeywordsDiplomacy ==
  (ClassifyReturned /\ probe.title = ThreeKeywords) =>
    probe.returned = << "diplomacy" >>

(***************************************************************************)
(* C19: the list fetch_all_feeds hands to the store loop is in descending  *)
(* order of importance_score, and candidates of equal score stand in the   *)
(* order in which their sources' fetches completed in that run.            *)
(***************************************************************************)
CompletionRank(p, a) ==
  CHOOSE i \in DOMAIN accepted[p] : accepted[p][i].id = a.id

HandedOver(p) == pc[p] \in {"storing", "cache", "publish"}

C19_SortedTiesInCompletionOrder ==
  \A p \in PassJobs :
    HandedOver(p) =>
      \A i, k \in DOMAIN articles[p] :
        i < k =>
          /\ articles[p][i].importance_score >= articles[p][k].importance_score
          /\ articles[p][i].importance_score = articles[p][k].importance_score
               => CompletionRank(p, articles[p][i])
                    < CompletionRank(p, articles[p][k])

(***************************************************************************)
(* C20: whenever the "latest_articles" snapshot is present it holds at     *)
(* most 50 records in descending order of importance_score, each with a    *)
(* summary of at most 300 characters; and when a pass writes it, its       *)
(* records are candidates of that pass and no candidate of the pass left   *)
(* out of it scores higher than one in it.                                 *)
(***************************************************************************)
SnapshotIds(snapshot) == {snapshot[i].id : i \in DOMAIN snapshot}

WellFormedSnapshot(snapshot) ==
  /\ Len(snapshot) <= 50
  /\ \A i \in DOMAIN snapshot : Len(snapshot[i].summary) <= 300
  /\ \A i, k \in DOMAIN snapshot :
       i < k => snapshot[i].importance_score >= snapshot[k].importance_score

TopOfPass(snapshot, p) ==
  /\ \A i \in DOMAIN snapshot :
       \E k \in DOMAIN accepted[p] :
         /\ accepted[p][k].id = snapshot[i].id
         /\ accepted[p][k].importance_score = snapshot[i].importance_score
  /\ \A k \in DOMAIN accepted[p] :
       accepted[p][k].id \notin SnapshotIds(snapshot) =>
         \A i \in DOMAIN snapshot :
           accepted[p][k].importance_score <= snapshot[i].importance_score

C20_SnapshotTopFifty ==
  [][cache_latest'.present =>
       /\ WellFormedSnapshot(cache_latest'.value)
       /\ \A p \in PassJobs :
            (pc[p] = "cache" /\ pc'[p] = "publish"
               /\ cache_latest' # cache_latest)
              => TopOfPass(cache_latest'.value, p)]_vars

\* a pass with more than 50 candidates has written the snapshot: 50 records
\* of more than one score, one summary cut to 300 characters
C20_Witness ==
  /\ cache_latest.present
  /\ Len(cache_latest.value) = 50
  /\ \E p \in PassJobs :
       /\ pc[p] = "publish"
       /\ Len(articles[p]) > 50
       /\ \E i \in DOMAIN cache_latest.value :
            /\ Len(articles[p][i].summary) > 300
            /\ Len(cache_latest.value[i].summary) = 300
  /\ cache_latest.value[1].importance_score
       > cache_latest.value[50].importance_score

(***************************************************************************)
(* C21: a failure of the cache write or of the notification publish never  *)
(* fails the ingestion pass: nothing is raised because of it, the call     *)
(* goes on to the publish and then returns its stored count, and the store *)
(* is left as the commit of the pass left it.                              *)
(***************************************************************************)
CacheStepFails(p) ==
  /\ pc[p] \in {"cache", "publish"}
  /\ pc'[p] # pc[p]
  /\ failures' > failures

C21_CacheFailureHarmless ==
  [][\A p \in PassJobs :
       CacheStepFails(p) =>
         /\ store' = store
         /\ lastRaised' = lastRaised
         /\ pc[p] = "cache" => pc'[p] = "publish" /\ stored'[p] = stored[p]
         /\ pc[p] = "publish" =>
              /\ Returns(p)
              /\ ReturnValue(p) = stored[p]
              /\ inst'[p] = inst[p] - 1]_vars

\* the cache write of a pass that stored something has failed, and the pass
\* stands before its publish
C21_Witness ==
  \E p \in PassJobs :
    /\ pc[p] = "publish"
    /\ ~cache_latest.present
    /\ stored[p] > 0
    /\ store # {}

(***************************************************************************)
(* C22: the retention cleanup removes exactly the items ingested           *)
(* (scraped_at) more than 30 days before the time of the cleanup, whatever *)
(* their publication time: an item ingested 31 days ago is removed, one    *)
(* ingested 29 days ago is kept; and no step other than the cleanup job    *)
(* ever removes an item from the store.                                    *)
(***************************************************************************)
PastHorizon(r) == now - r.scraped_at > 30 * 24 * 60

CleanupDeletes ==
  /\ inst[CleanupJob] > 0
  /\ inst'[CleanupJob] < inst[CleanupJob]
  /\ failures' = failures

C22_CleanupByIngestionTime ==
  [][/\ CleanupDeletes => store' = {r \in store : ~PastHorizon(r)}
     /\ store \ store' # {} => CleanupDeletes]_vars

\* after a cleanup at the start time: the rows ingested 31 days and 30 days
\* and a minute before are gone, whatever their publication time, and the
\* rows ingested 29 days and exactly 30 days before are kept
C22_Witness ==
  /\ now = 0
  /\ inst[CleanupJob] = 0
  /\ lastRaised = "none"
  /\ \A n \in {3, 4, 5} : "e" \o Digits[n + 1] \notin Urls(store)
  /\ \A n \in {1, 2} : "e" \o Digits[n + 1] \in Urls(store)

(***************************************************************************)
(* C23: the transition from stopped to running registers all five jobs;    *)
(* after the transition from running to stopped no firing of any job       *)
(* begins; the stop returns without waiting for a pass in flight (it can   *)
(* be taken whenever the scheduler runs and changes nothing of a run in    *)
(* flight), and a pass in flight can still take each of its steps up to    *)
(* its end.                                                                *)
(***************************************************************************)
Starts == scheduler = "created" /\ scheduler' = "running"
Stops == scheduler = "running" /\ scheduler' = "shutdown"

\* the positions a fetch_and_store call can move to from position at
AfterPosition(at) ==
  CASE at = "fetching" -> {"storing", "idle"}
    [] at = "storing" -> {"cache", "idle"}
    [] at = "cache" -> {"publish"}
    [] at = "publish" -> {"idle"}
    [] OTHER -> {}

StartsPass(p) == pc[p] = "idle" /\ pc'[p] = "fetching"
FetchEnds(p) == pendingFetch[p] \ pendingFetch'[p]

\* C24: a pass fetches exactly the registry sources whose tier is at most its
\* priority filter: the run of fetch_priority_feeds creates fetch tasks for the
\* tier-1 sources and for no other, the run of fetch_all_feeds for every source
\* of the registry; while the pass fetches, one fetch ends per step, only a
\* source whose fetch is pending gets a result, no source becomes pending
\* again, and the fan-in returns only when no fetch is pending, so that every
\* selected source is fetched exactly once in the pass.
C24_FetchesSelectedTiersOnce ==
  [][\A p \in PassJobs :
       /\ StartsPass(p) =>
            pendingFetch'[p] =
              IF p = "fetch_priority_feeds"
              THEN {s \in Sources : RSS_FEEDS[s].priority <= 1}
              ELSE Sources
       /\ pc[p] = "fetching" /\ pc'[p] = "fetching" =>
            /\ pendingFetch'[p] \subseteq pendingFetch[p]
            /\ Cardinality(FetchEnds(p)) <= 1
            /\ \A s \in Sources :
                 results'[p][s] # results[p][s] => s \in FetchEnds(p)
       /\ pc[p] = "fetching" /\ pc'[p] # "fetching" => pendingFetch[p] = {}]_vars

\* a run of fetch_priority_feeds has handed over the candidates of the tier-1
\* source while the tier-2 source offers entries that were never fetched
C24_Witness ==
  LET p == "fetch_priority_feeds"
  IN /\ pc[p] = "storing"
     /\ Len(articles[p]) > 0
     /\ \E s \in Sources :
          /\ RSS_FEEDS[s].priority = 2
          /\ Len(feeds[s]) > 0
          /\ results[p][s] = << >>
          /\ s \notin fetchFailed[p]

CommitSucceeds(p) == pc[p] = "storing" /\ pc'[p] = "cache" /\ failures' = failures
SnapshotStep(p) == pc[p] = "cache" /\ pc'[p] = "publish"
NotifyStep(p) == pc[p] = "publish" /\ Returns(p)

EveryStatementFailed(p) ==
  /\ pc[p] \in {"storing", "cache", "publish"}
  /\ Len(articles[p]) > 0
  /\ injected[p] = 1..Len(articles[p])

\* C26: during a total store outage a pass inserts nothing, the value it
\* returns is 0, the scheduler stays as it is with its jobs registered, and
\* the run gives its instance back so that the job is fired again.
C26_OutageDegradesToZero ==
  [][\A p \in PassJobs :
       Returns(p) /\ EveryStatementFailed(p) =>
         /\ store' = store
         /\ ReturnValue(p) = 0
         /\ scheduler' = scheduler
         /\ registered' = registered
         /\ inst'[p] = inst[p] - 1]_vars

\* the fetch of source s in pass p is abandoned in this step
Abandoned(p, s) ==
  s \in pendingFetch[p] /\ s \in fetchFailed'[p] \ fetchFailed[p]

\* the candidates a finished fetch phase holds from the sources that answered
Answered(p) ==
  UNION {{results[p][s][i] : i \in DOMAIN results[p][s]} :
           s \in SelectedSources(PriorityFilter(p)) \ fetchFailed[p]}

\* C27: whatever subset of the sources of a pass exceeds the timeout, the
\* fan-in of the pass returns.  Abandoning a source ends the fetch of that
\* source alone: the pass keeps fetching, the other pending fetches stay
\* pending and the results already in stay; no step cancels the run, the
\* fetch phase ends only by the fan-in, without an exception and with every
\* fetch over.  The pass then goes on with exactly the candidates of the
\* sources that answered, and returns 0 when there are none.
C27_PassSurvivesSlowSources ==
  /\ \A p \in PassJobs : (pc[p] = "fetching") ~> (pc[p] # "fetching")
  /\ [][\A p \in PassJobs :
          /\ \A s \in Sources :
               Abandoned(p, s) =>
                 /\ pc' = pc
                 /\ pendingFetch'[p] = pendingFetch[p] \ {s}
                 /\ \A t \in Sources \ {s} : results'[p][t] = results[p][t]
                 /\ lastRaised' = lastRaised
          /\ pc[p] = "fetching" /\ pc'[p] # "fetching" =>
               /\ pendingFetch[p] = {}
               /\ lastRaised' = lastRaised
               /\ IF Answered(p) = {}
                  THEN pc'[p] = "idle" /\ ReturnValue(p) = 0
                  ELSE /\ pc'[p] = "storing"
                       /\ {articles'[p][i] : i \in DOMAIN articles'[p]}
                            = Answered(p)]_vars

\* a full pass stores the candidates of one source after the fetch of the
\* other source timed out
C27_Witness ==
  LET p == "fetch_all_feeds"
  IN /\ pc[p] = "storing"
     /\ Cardinality(fetchFailed[p]) = 1
     /\ Len(articles[p]) > 1
     /\ failures = 0

ReadStep == probe.fn = "get_cached_latest" /\ probe' # probe

\* C28: a call of get_cached_latest does not raise; it returns the snapshot
\* the key holds at the moment of the call when the cache is in reach and
\* holds one, and None when the key was never written, has expired, or the
\* cache is out of reach.  The call changes nothing else.
C28_ReadNeverRaises ==
  [][ReadStep =>
       /\ Len(probe'.result) = 1
       /\ ~probe'.result[1].raised
       /\ probe'.result[1].value =
            IF probe'.reached /\ cache_latest.present
            THEN Some(cache_latest.value) ELSE None
       /\ cache_latest.present => cache_latest.value # << >>
       /\ cacheVars' = cacheVars /\ lastRaised' = lastRaised]_vars

\* a call with the cache out of reach returned None while the key held a
\* snapshot
C28_Witness ==
  /\ probe.fn = "get_cached_latest"
  /\ probe.result # << >>
  /\ ~probe.reached
  /\ probe.result[1] = Returned(None)
  /\ cache_latest.present
  /\ ticks = 0

\* this step accepts an entry
Accepts == seen_urls' # seen_urls

\* C29: seen_titles never holds more than 5000 titles.  When an accepted
\* entry makes the list 5001 long, the list becomes the last 3000 titles of
\* it, the new title last and the order kept; otherwise the title is appended
\* and nothing is dropped.  seen_urls gains the link of the accepted entry and
\* loses nothing, also when the titles are cut.  A step that accepts nothing
\* leaves both as they are.
C29_SeenTitlesBounded ==
  /\ Len(seen_titles) <= SeenTitlesCap
  /\ [][/\ Len(seen_titles') <= 5000
        /\ Accepts =>
             LET title == Strip(probe'.entry[1].title)
                 n == Len(seen_titles)
             IN /\ n + 1 > 5000 =>
                     /\ Len(seen_titles') = 3000
                     /\ seen_titles'[3000] = title
                     /\ \A i \in 1..2999 :
                          seen_titles'[i] = seen_titles[n + 1 - 3000 + i]
                /\ n + 1 <= 5000 => seen_titles' = Append(seen_titles, title)
                /\ seen_urls \subseteq seen_urls'
                /\ Cardinality(seen_urls') = Cardinality(seen_urls) + 1
        /\ ~Accepts => seen_titles' = seen_titles]_vars

\* an engine with 5000 titles has accepted two more entries: the first made
\* the cut, the second was appended to the 3000 that were kept
C29_Witness ==
  /\ probe.fn = "_parse_entry"
  /\ Len(seen_titles) = 3001
  /\ seen_titles[1] = "t" \o FourDigits(2002)
  /\ Cardinality(seen_urls) = 5002

\* a call over the item's source that started alone ends in this step, and
\* nothing failed in it
WorkingPassEnds(p, it) ==
  /\ Returns(p)
  /\ quiet[p]
  /\ failures' = failures
  /\ Offered(it)
  /\ it[1] \in SelectedSources(PriorityFilter(p))

\* the call has handed over another item whose title the item's title matches
DroppedAsDuplicate(p, it) ==
  \E i \in DOMAIN articles[p] :
    /\ articles[p][i].url # ItemUrl(it)
    /\ TitlesMatch(ItemTitle(it), articles[p][i].title)

\* every call in flight ends: again and again no call is in flight
EveryPassEnds ==
  []<>(\A p \in PassJobs : ~InFlight(p))

Categories ==
  {DefaultCategory}
    \cup {CATEGORY_KEYWORDS[c].cat : c \in DOMAIN CATEGORY_KEYWORDS}

C31_CategoryInClosedSet ==
  /\ \A p \in PassJobs :
       /\ \A s \in Sources : \A i \in DOMAIN results[p][s] :
            results[p][s][i].category \in Categories
       /\ \A i \in DOMAIN articles[p] : articles[p][i].category \in Categories
       /\ \A r \in txn[p].ins : r.category \in Categories
  /\ \A r \in store : r.category \in Categories
  /\ cache_latest.present =>
       \A i \in DOMAIN cache_latest.value :
         cache_latest.value[i].category \in Categories
  /\ ClassifyReturned => probe.returned[1] \in Categories

\* a text without a keyword has been classified, and the store holds items
\* of a declared category and of the default one
C31_Witness ==
  /\ ClassifyReturned
  /\ probe.returned = << DefaultCategory >>
  /\ \E r \in store : r.category = DefaultCategory
  /\ \E r \in store : r.category = "conflict"

(***************************************************************************)
(* C32: an entry whose processing raises after the dedup checks leaves     *)
(* seen_urls and seen_titles as they were: while a pass fetches, every     *)
(* link hash in seen_urls is the hash of a candidate of the pass, and      *)
(* every title in seen_titles is the title of one.                         *)
(***************************************************************************)
CandidatesOf(p) ==
  UNION {{results[p][s][i] : i \in DOMAIN results[p][s]} : s \in Sources}

C32_RaisingEntryLeavesNoTrace ==
  \A p \in PassJobs :
    pc[p] = "fetching" =>
      /\ seen_urls \subseteq {UrlHash(a.url) : a \in CandidatesOf(p)}
      /\ \A i \in DOMAIN seen_titles :
           seen_titles[i] \in {a.title : a \in CandidatesOf(p)}

(***************************************************************************)
(* C33: every record of the cached snapshot whose url is in the store      *)
(* carries the id of the stored item with that url.                        *)
(***************************************************************************)
C33_SnapshotIdsAreStoredIds ==
  cache_latest.present =>
    \A i \in DOMAIN cache_latest.value :
      \A r \in store :
        r.url = cache_latest.value[i].url => r.id = cache_latest.value[i].id

(***************************************************************************)
(* C34: the candidates of a pass, by url, region and source, are those of  *)
(* the pass over the same feed contents whose fetches complete in registry *)
(* order, in whatever order its own fetches completed.                     *)
(***************************************************************************)
RECURSIVE ParseInOrder(_, _, _, _)
ParseInOrder(st, order, clock, runNo) ==
  IF Len(order) = 0 THEN st
  ELSE ParseInOrder(
         ParseEntries(st, feeds[Head(order)], RSS_FEEDS[Head(order)], clock,
                      runNo, 1),
         Tail(order), clock, runNo)

RegistryOrderRun(p) ==
  ParseInOrder([seen_urls |-> {}, seen_titles |-> << >>, articles |-> << >>],
               SetToSortedSeq(SelectedSources(PriorityFilter(p))), now, run[p])

Identity(a) == <<a.url, a.region, a.source_name>>

C34_CandidatesIndependentOfOrder ==
  \A p \in PassJobs :
    (pc[p] = "fetching" /\ pendingFetch[p] = {} /\ quiet[p]) =>
      {Identity(a) : a \in CandidatesOf(p)}
        = {Identity(RegistryOrderRun(p).articles[i]) :
             i \in DOMAIN RegistryOrderRun(p).articles}

(***************************************************************************)
(* C35: when both ingestion passes have committed while the other is still *)
(* in flight, the sum of their inserted_counts is the number of distinct   *)
(* urls their commits added to the store.                                  *)
(***************************************************************************)
AfterCommit(p) == pc[p] \in {"cache", "publish"}

C35_OverlapCountsOnce ==
  (\A p \in PassJobs : AfterCommit(p)) =>
    stored["fetch_priority_feeds"] + stored["fetch_all_feeds"]
      = Cardinality(committed["fetch_priority_feeds"]
                      \cup committed["fetch_all_feeds"])

(***************************************************************************)
(* C36: a pass whose fetches left no candidate returns 0 at once, and its  *)
(* return leaves the store, the snapshot and the notification channel as   *)
(* they were; a pass that is storing, writing the snapshot or notifying    *)
(* has at least one candidate.                                             *)
(***************************************************************************)
NoCandidate(p) ==
  pc[p] = "fetching" /\ pendingFetch[p] = {} /\ CandidatesOf(p) = {}

C36_EmptyPassTouchesNothing ==
  /\ [](\A p \in PassJobs : pc[p] \in {"storing", "cache", "publish"} =>
                              Len(articles[p]) > 0)
  /\ [][\A p \in PassJobs :
          (NoCandidate(p) /\ pc'[p] # pc[p]) =>
            /\ Returns(p)
            /\ ReturnValue(p) = 0
            /\ storeVars' = storeVars
            /\ cacheVars' = cacheVars]_vars

\* every entry of the pass was rejected as seen, none of its fetches failed,
\* and there are a store, a snapshot and a notification to leave alone
C36_Witness ==
  /\ \E p \in PassJobs : NoCandidate(p) /\ fetchFailed[p] = {}
  /\ store # {}
  /\ cache_latest.present
  /\ notifications # << >>

(***************************************************************************)
(* C38: every candidate has a non-empty title and a non-empty url.         *)
(***************************************************************************)
C38_CandidatesHaveTitleAndUrl ==
  \A p \in PassJobs : \A a \in CandidatesOf(p) :
    Len(a.title) > 0 /\ Len(a.url) > 0

(***************************************************************************)
(* C37, as stated: a call of _parse_entry that does not accept its entry   *)
(* (no title or link, link already seen, title a near-duplicate, or an     *)
(* exception while the candidate is built) leaves seen_urls and            *)
(* seen_titles as they were; a call that accepts it adds exactly one       *)
(* element to each.                                                        *)
(***************************************************************************)
ParseStep == probe.fn = "_parse_entry" /\ probe'.calls = probe.calls + 1

RejectsEntry(entry) ==
  \/ MissingTitleOrLink(entry)
  \/ UrlHash(Strip(entry.link)) \in seen_urls
  \/ _is_duplicate_title(seen_titles, Strip(entry.title))

====
